---------------------------- MODULE Spec2Model ----------------------------
(***************************************************************************)
(* A model of pcap-ai-analyzer: the prepare stage (PCAPAnalysisPrep in     *)
(* prepare_for_ai_analysis.py) and the identity anonymizer of the sanitize *)
(* stage (PCAPSanitizer in sanitize_pcap.py).                              *)
(*                                                                         *)
(* Text is modelled as follows.  Identifiers that the code only compares   *)
(* and formats (IP addresses, keys) are TLA+ strings, built with \o and    *)
(* ToString exactly as the f-strings build them.  Text that the code       *)
(* searches or slices (payloads, hex digests) is a sequence of one         *)
(* character strings.  Python's None is the empty tuple and a present      *)
(* value v is <<v>>.                                                       *)
(***************************************************************************)
EXTENDS Integers, Sequences, FiniteSets, TLC

VARIABLES
    stage,          \* which program runs: "prepare", "sanitize", "file", "llm"
    capture,        \* the capture file on disk: a sequence of packets
    now,            \* the wall clock read by datetime.now()
    run,            \* 1 for the first invocation on the file, 2 for the second
    pc,             \* position of main(): load, analyze, done, or how it ended
    packets,        \* self.packets
    idx,            \* packets analysed so far by analyze_all
    stats,          \* self.stats
    tcp_seq_track,  \* self.tcp_seq_track
    reports,        \* what export_analysis wrote in this run
    prev_reports,   \* what the first invocation wrote (kept for comparison)
    out_dir,        \* args.output_dir on disk: None, or the names of its files
    exit_status,    \* the status the process exited with, None while it runs
    cancelled,      \* the user pressed Ctrl-C during this run
    preserve_internal_ips,  \* PCAPSanitizer.preserve_internal_ips
    ip_map,         \* PCAPSanitizer.ip_map
    mac_map,        \* PCAPSanitizer.mac_map
    domain_map,     \* PCAPSanitizer.domain_map
    calls,          \* log of this run's anonymize_* calls: kind, arg, result
    prev_calls,     \* the log of the first sanitizer run
    input_file,     \* the capture sanitize_file reads
    san_stats,      \* PCAPSanitizer.stats
    sanitized_packets,  \* the list sanitize_file collects
    output_file,    \* what wrpcap wrote, None before
    file_error,     \* sanitize_file printed "Error processing file"
    focus,          \* args.focus of analyze_with_ai.py
    model,          \* args.model, then PCAPAIAnalyzer.model
    save_output,    \* not args.no_save
    requests,       \* the arguments of each chat.completions.create call
    result,         \* what PCAPAIAnalyzer.analyze returned, None before
    printed         \* the messages of the run that matter to its outcome

mainVars == <<out_dir, exit_status, cancelled>>
prepVars == <<capture, now, run, pc, packets, idx, stats, tcp_seq_track,
              reports, prev_reports, mainVars>>
fileVars == <<input_file, san_stats, sanitized_packets, output_file,
              file_error>>
sanVars == <<preserve_internal_ips, ip_map, mac_map, domain_map, calls,
             prev_calls, fileVars>>
llmVars == <<focus, model, save_output, requests, result, printed>>
vars == <<stage, prepVars, sanVars, llmVars>>

-----------------------------------------------------------------------------
(* Bounds of the model *)

\* longest capture drawn from a packet family
MaxPkts == 3
\* length of the bulk captures (longer than every truncation limit)
MaxBulk == 52
\* longest sequence of anonymize_* calls of one sanitizer run
MaxCalls == 3

\* pkt.time of a record without a timestamp (None in the program)
NoTimestamp == -1

(* Constants of the program *)

\* prepare_for_ai_analysis.py:147  len(pkt) > 60
HeaderOnlyCutoff == 60
\* prepare_for_ai_analysis.py:243  len(pkt) > 1400
LargePacketSize == 1400
\* prepare_for_ai_analysis.py:235  payload[:200]
PreviewLen == 200
\* prepare_for_ai_analysis.py:283-289  most_common(10)
TopN == 10
\* prepare_for_ai_analysis.py:299  most_common(20)
TopDnsN == 20
\* prepare_for_ai_analysis.py:306-309  [:50]
ErrorListLimit == 50
\* prepare_for_ai_analysis.py:310  [:30]
ConnFailureLimit == 30
\* prepare_for_ai_analysis.py:311  [:20]
LargePacketLimit == 20
\* prepare_for_ai_analysis.py:321  [:20]
TopConversations == 20
\* prepare_for_ai_analysis.py:335  most_common(5)
TopFlags == 5

-----------------------------------------------------------------------------
(* Python values *)

None == <<>>
Some(v) == <<v>>

Min(a, b) == IF a < b THEN a ELSE b

\* a slice that does not cut
PrefixUncut(s, n) == s

\* s[:n]
Prefix(s, n) == SubSeq(s, 1, Min(n, Len(s)))

\* "".join(chars)
RECURSIVE JoinChars(_)
JoinChars(chars) ==
    IF chars = <<>> THEN "" ELSE Head(chars) \o JoinChars(Tail(chars))

\* sep.join(parts), parts non-empty
RECURSIVE JoinWith(_, _)
JoinWith(parts, sep) ==
    IF Len(parts) = 1 THEN parts[1]
    ELSE parts[1] \o sep \o JoinWith(Tail(parts), sep)

\* pat in text, both sequences of characters
Contains(text, pat) ==
    \E i \in 0..(Len(text) - Len(pat)) :
        \A j \in 1..Len(pat) : text[i + j] = pat[j]

(* collections.Counter: a dict, so its keys keep their insertion order *)

CounterInc(c, k) ==
    IF \E i \in 1..Len(c) : c[i].key = k
    THEN [i \in 1..Len(c) |->
             IF c[i].key = k THEN [c[i] EXCEPT !.count = @ + 1] ELSE c[i]]
    ELSE Append(c, [key |-> k, count |-> 1])

CounterGet(c, k) ==
    IF \E i \in 1..Len(c) : c[i].key = k
    THEN (CHOOSE e \in {c[i] : i \in 1..Len(c)} : e.key = k).count
    ELSE 0

\* sorted(items, key=..., reverse=True), weights[i] being the key of items[i]:
\* the sort is stable, so items of equal weight keep their original order
SortedDesc(items, weights) ==
    LET n == Len(items)
        rank == [i \in 1..n |->
                    Cardinality({j \in 1..n : weights[j] > weights[i]})
                    + Cardinality({j \in 1..(i - 1) : weights[j] = weights[i]})
                    + 1]
    IN  [p \in 1..n |-> items[CHOOSE i \in 1..n : rank[i] = p]]

Counts(c) == [i \in 1..Len(c) |-> c[i].count]

\* Counter.most_common(): every entry, by descending count
MostCommonAll(c) == SortedDesc(c, Counts(c))

\* Counter.most_common(n)
MostCommon(c, n) == Prefix(SortedDesc(c, Counts(c)), n)

\* defaultdict(list)[k].append(v), the dict keeping insertion order
ListDictAppend(d, k, v) ==
    IF \E i \in 1..Len(d) : d[i].key = k
    THEN [i \in 1..Len(d) |->
             IF d[i].key = k THEN [d[i] EXCEPT !.items = Append(@, v)] ELSE d[i]]
    ELSE Append(d, [key |-> k, items |-> <<v>>])

-----------------------------------------------------------------------------
(* PCAPAnalysisPrep.__init__ *)

InitStats ==
    [total_packets |-> 0,
     protocols |-> <<>>, src_ips |-> <<>>, dst_ips |-> <<>>,
     src_ports |-> <<>>, dst_ports |-> <<>>, tcp_flags |-> <<>>,
     dns_queries |-> <<>>,
     dns_failures |-> <<>>, http_errors |-> <<>>,
     tcp_retransmissions |-> <<>>, tcp_resets |-> <<>>,
     connection_failures |-> <<>>, large_packets |-> <<>>,
     errors_by_type |-> <<>>,
     conversations |-> <<>>]

\* defaultdict(set): no key yet
InitSeqTrack == <<>>

\* the value of the conversations defaultdict's factory
NewConversation(key) ==
    [key |-> key, packets |-> 0, bytes |-> 0,
     first_seen |-> None, last_seen |-> None, flags |-> <<>>]

-----------------------------------------------------------------------------
(* PCAPAnalysisPrep.analyze_packet *)

\* f"{ip.src}:{tcp.sport}"
Endpoint(ip, port) == ip \o ":" \o ToString(port)

\* a key that names the two endpoints in the order of their ports
ConvKeyByPort(pkt) ==
    IF pkt.sport >= pkt.dport
    THEN Endpoint(pkt.src, pkt.sport) \o " -> " \o Endpoint(pkt.dst, pkt.dport)
    ELSE Endpoint(pkt.dst, pkt.dport) \o " -> " \o Endpoint(pkt.src, pkt.sport)

\* a key that also names the transport protocol
ConvKeyWithProtocol(pkt) ==
    pkt.l4 \o " " \o Endpoint(pkt.src, pkt.sport) \o " -> "
        \o Endpoint(pkt.dst, pkt.dport)

\* conv_key = f"{ip.src}:{tcp.sport} -> {ip.dst}:{tcp.dport}"
ConvKey(pkt) ==
    Endpoint(pkt.src, pkt.sport) \o " -> " \o Endpoint(pkt.dst, pkt.dport)

\* conn_key = f"{ip.src}:{tcp.sport}->{ip.dst}:{tcp.dport}"
ConnKey(pkt) ==
    Endpoint(pkt.src, pkt.sport) \o "->" \o Endpoint(pkt.dst, pkt.dport)

\* a tracker keyed on the sequence number alone
SeqKeyWithoutLength(pkt) == ToString(pkt.seq)

\* seq_key = f"{tcp.seq}-{len(pkt)}"
SeqKey(pkt) == ToString(pkt.seq) \o "-" \o ToString(pkt.len)

\* the names appended to flags, in the order of the five if statements
FlagNames(flags) ==
    (IF "S" \in flags THEN <<"SYN">> ELSE <<>>)
    \o (IF "A" \in flags THEN <<"ACK">> ELSE <<>>)
    \o (IF "F" \in flags THEN <<"FIN">> ELSE <<>>)
    \o (IF "R" \in flags THEN <<"RST">> ELSE <<>>)
    \o (IF "P" \in flags THEN <<"PSH">> ELSE <<>>)

\* flag_str = '|'.join(flags) if flags else 'NONE'
FlagStr(flags) ==
    IF FlagNames(flags) = <<>> THEN "NONE" ELSE JoinWith(FlagNames(flags), "|")

\* conv = self.stats['conversations'][conv_key] and the updates of conv;
\* only the TCP branch appends to conv['flags']
ConvUpdate(convs, key, pkt, withFlags) ==
    LET had == \E i \in 1..Len(convs) : convs[i].key = key
        base == IF had THEN convs ELSE Append(convs, NewConversation(key))
        upd(c) ==
            [c EXCEPT !.packets = @ + 1,
                      !.bytes = @ + pkt.len,
                      !.first_seen = IF @ = None THEN Some(pkt.time) ELSE @,
                      !.last_seen = Some(pkt.time),
                      !.flags = IF withFlags THEN Append(@, pkt.flags) ELSE @]
    IN  [i \in 1..Len(base) |->
            IF base[i].key = key THEN upd(base[i]) ELSE base[i]]

\* self.tcp_seq_track[conn_key]
TrackGet(track, key) ==
    IF \E i \in 1..Len(track) : track[i].key = key
    THEN (CHOOSE e \in {track[i] : i \in 1..Len(track)} : e.key = key).seen
    ELSE {}

\* a cutoff that lets a frame of 60 bytes through
IsRetransmissionFrom60(track, pkt) ==
    /\ SeqKey(pkt) \in TrackGet(track, ConnKey(pkt))
    /\ pkt.len >= HeaderOnlyCutoff

\* seq_key in self.tcp_seq_track[conn_key] and len(pkt) > 60
IsRetransmission(track, pkt) ==
    /\ SeqKey(pkt) \in TrackGet(track, ConnKey(pkt))
    /\ pkt.len > HeaderOnlyCutoff

\* the TCP branch is the only one that reads or writes tcp_seq_track
TracksTcp(pkt) == pkt.net = "IPv4" /\ pkt.l4 = "TCP"

\* a tracker that remembers only the last pair seen on a connection
TrackAfterLastOnly(track, pkt) ==
    IF ~TracksTcp(pkt) THEN track
    ELSE LET key == ConnKey(pkt)
             rest == SelectSeq(track, LAMBDA e : e.key # key)
         IN  Append(rest, [key |-> key, seen |-> {SeqKey(pkt)}])

\* evaluating self.tcp_seq_track[conn_key] creates the key; the else branch
\* adds seq_key to its set
TrackAfter(track, pkt) ==
    IF ~TracksTcp(pkt) THEN track
    ELSE LET key == ConnKey(pkt)
             had == \E i \in 1..Len(track) : track[i].key = key
             base == IF had THEN track
                     ELSE Append(track, [key |-> key, seen |-> {}])
         IN  IF IsRetransmission(track, pkt) THEN base
             ELSE [i \in 1..Len(base) |->
                      IF base[i].key = key
                      THEN [base[i] EXCEPT !.seen = @ \cup {SeqKey(pkt)}]
                      ELSE base[i]]

\* a reset stamped with the time of the analysis
TcpResetEventWallClock(pkt, pkt_num) ==
    [packet_num |-> pkt_num, timestamp |-> now,
     src |-> Endpoint(pkt.src, pkt.sport), dst |-> Endpoint(pkt.dst, pkt.dport),
     seq |-> pkt.seq, ack |-> pkt.ack]

TcpResetEvent(pkt, pkt_num) ==
    [packet_num |-> pkt_num, timestamp |-> pkt.time,
     src |-> Endpoint(pkt.src, pkt.sport), dst |-> Endpoint(pkt.dst, pkt.dport),
     seq |-> pkt.seq, ack |-> pkt.ack]

RetransmissionEvent(pkt, pkt_num) ==
    [packet_num |-> pkt_num, timestamp |-> pkt.time,
     src |-> Endpoint(pkt.src, pkt.sport), dst |-> Endpoint(pkt.dst, pkt.dport),
     seq |-> pkt.seq, length |-> pkt.len]

ConnectionFailureEvent(pkt, pkt_num) ==
    [packet_num |-> pkt_num, timestamp |-> pkt.time,
     src |-> Endpoint(pkt.src, pkt.sport), dst |-> Endpoint(pkt.dst, pkt.dport),
     type |-> "SYN_NO_RESPONSE"]

\* if tcp.flags.R
AfterReset(s, pkt, pkt_num) ==
    IF "R" \in pkt.flags
    THEN [s EXCEPT !.tcp_resets = Append(@, TcpResetEvent(pkt, pkt_num)),
                   !.errors_by_type = ListDictAppend(@, "TCP_RESET", pkt_num)]
    ELSE s

\* if seq_key in self.tcp_seq_track[conn_key] and len(pkt) > 60
AfterRetransmission(s, track, pkt, pkt_num) ==
    IF IsRetransmission(track, pkt)
    THEN [s EXCEPT !.tcp_retransmissions =
                       Append(@, RetransmissionEvent(pkt, pkt_num)),
                   !.errors_by_type =
                       ListDictAppend(@, "TCP_RETRANSMISSION", pkt_num)]
    ELSE s

\* if tcp.flags.S and not tcp.flags.A
AfterSyn(s, pkt, pkt_num) ==
    IF "S" \in pkt.flags /\ "A" \notin pkt.flags
    THEN [s EXCEPT !.connection_failures =
                       Append(@, ConnectionFailureEvent(pkt, pkt_num))]
    ELSE s

\* if pkt.haslayer(TCP): ...
TcpBranch(s, track, pkt, pkt_num) ==
    LET s1 == [s EXCEPT
                 !.conversations = ConvUpdate(@, ConvKey(pkt), pkt, TRUE),
                 !.protocols = CounterInc(@, "TCP"),
                 !.src_ports = CounterInc(@, pkt.sport),
                 !.dst_ports = CounterInc(@, pkt.dport),
                 !.tcp_flags = CounterInc(@, FlagStr(pkt.flags))]
        s2 == AfterReset(s1, pkt, pkt_num)
        s3 == AfterRetransmission(s2, track, pkt, pkt_num)
    IN  AfterSyn(s3, pkt, pkt_num)

\* a UDP branch that counts the datagram twice as a protocol
UdpBranchCountedTwice(s, pkt) ==
    [s EXCEPT !.protocols = CounterInc(CounterInc(@, "UDP"), "UDP"),
              !.src_ports = CounterInc(@, pkt.sport),
              !.dst_ports = CounterInc(@, pkt.dport),
              !.conversations = ConvUpdate(@, ConvKey(pkt), pkt, FALSE)]

\* elif pkt.haslayer(UDP): ...
UdpBranch(s, pkt) ==
    [s EXCEPT !.protocols = CounterInc(@, "UDP"),
              !.src_ports = CounterInc(@, pkt.sport),
              !.dst_ports = CounterInc(@, pkt.dport),
              !.conversations = ConvUpdate(@, ConvKey(pkt), pkt, FALSE)]

IcmpUnreachableEvent(pkt, pkt_num) ==
    [packet_num |-> pkt_num, timestamp |-> pkt.time,
     src |-> pkt.src, dst |-> pkt.dst, code |-> pkt.icmp_code]

\* an ICMP branch that counts the protocol and records nothing
IcmpBranchCountingOnly(s, pkt, pkt_num) ==
    [s EXCEPT !.protocols = CounterInc(@, "ICMP")]

\* elif pkt.haslayer(ICMP): ...
IcmpBranch(s, pkt, pkt_num) ==
    LET s1 == [s EXCEPT !.protocols = CounterInc(@, "ICMP")]
    IN  IF pkt.icmp_type = 3
        THEN [s1 EXCEPT !.errors_by_type =
                  ListDictAppend(@, "ICMP_DEST_UNREACHABLE",
                                 IcmpUnreachableEvent(pkt, pkt_num))]
        ELSE s1

\* if pkt.haslayer(IP): ... elif pkt.haslayer(IPv6): ...
ProtocolSection(s, track, pkt, pkt_num) ==
    IF pkt.net = "IPv4"
    THEN LET s1 == [s EXCEPT !.protocols = CounterInc(@, "IPv4"),
                             !.src_ips = CounterInc(@, pkt.src),
                             !.dst_ips = CounterInc(@, pkt.dst)]
         IN  CASE pkt.l4 = "TCP" -> TcpBranch(s1, track, pkt, pkt_num)
               [] pkt.l4 = "UDP" -> UdpBranch(s1, pkt)
               [] pkt.l4 = "ICMP" -> IcmpBranch(s1, pkt, pkt_num)
               [] OTHER -> s1
    ELSE IF pkt.net = "IPv6"
    THEN [s EXCEPT !.protocols = CounterInc(@, "IPv6")]
    ELSE s

\* the name of a byte that is no valid UTF-8
BadByte == "<ff>"

\* bytes.decode('utf-8', errors='ignore'): the undecodable bytes are dropped
Decode(bytes) == SelectSeq(bytes, LAMBDA b : b # BadByte)

\* a DNS name is its labels, the last one empty when the name ends with a
\* dot; str.rstrip('.') drops every trailing dot
RECURSIVE RStripDots(_)
RStripDots(labels) ==
    IF labels = <<>> THEN <<>>
    ELSE IF labels[Len(labels)] = ""
    THEN RStripDots(SubSeq(labels, 1, Len(labels) - 1))
    ELSE labels

\* dns.qd.qname.decode('utf-8', errors='ignore').rstrip('.')
QName(pkt) ==
    IF RStripDots(pkt.qname) = <<>> THEN ""
    ELSE JoinWith(RStripDots(pkt.qname), ".")

\* a table that ends with NOTIMP
DnsRcodeNameShort(rcode) ==
    CASE rcode = 0 -> "NOERROR"
      [] rcode = 1 -> "FORMERR"
      [] rcode = 2 -> "SERVFAIL"
      [] rcode = 3 -> "NXDOMAIN"
      [] rcode = 4 -> "NOTIMP"
      [] OTHER -> "UNKNOWN(" \o ToString(rcode) \o ")"

\* _dns_rcode_name
DnsRcodeName(rcode) ==
    CASE rcode = 0 -> "NOERROR"
      [] rcode = 1 -> "FORMERR"
      [] rcode = 2 -> "SERVFAIL"
      [] rcode = 3 -> "NXDOMAIN"
      [] rcode = 4 -> "NOTIMP"
      [] rcode = 5 -> "REFUSED"
      [] OTHER -> "UNKNOWN(" \o ToString(rcode) \o ")"

DnsFailureEvent(pkt, pkt_num) ==
    [packet_num |-> pkt_num, timestamp |-> pkt.time,
     query |-> IF pkt.has_qd THEN QName(pkt) ELSE "unknown",
     rcode |-> pkt.rcode, rcode_name |-> DnsRcodeName(pkt.rcode)]

\* if dns.qr == 0: ... else: if dns.rcode != 0: ...
IsDnsFailure(pkt) == pkt.dns /\ pkt.qr # 0 /\ pkt.rcode # 0

\* if pkt.haslayer(DNS): ...
DnsSection(s, pkt, pkt_num) ==
    IF ~pkt.dns THEN s
    ELSE IF pkt.qr = 0
    THEN IF pkt.has_qd
         THEN [s EXCEPT !.dns_queries = CounterInc(@, QName(pkt))]
         ELSE s
    ELSE IF IsDnsFailure(pkt)
    THEN [s EXCEPT !.dns_failures = Append(@, DnsFailureEvent(pkt, pkt_num)),
                   !.errors_by_type = ListDictAppend(@, "DNS_FAILURE", pkt_num)]
    ELSE s

\* the list the for statement walks
HttpErrorCodes ==
    << <<"4","0","0">>, <<"4","0","1">>, <<"4","0","3">>, <<"4","0","4">>,
       <<"5","0","0">>, <<"5","0","2">>, <<"5","0","3">>, <<"5","0","4">> >>

HttpMarker == <<"H","T","T","P","/">>
Http11 == <<"H","T","T","P","/","1",".","1"," ">>
Http10 == <<"H","T","T","P","/","1",".","0"," ">>

\* f'HTTP/1.1 {error_code}' in payload or f'HTTP/1.0 {error_code}' in payload
MatchesErrorCode(payload, code) ==
    Contains(payload, Http11 \o code) \/ Contains(payload, Http10 \o code)

\* a loop without the break: every code found
ScanEveryErrorCode(payload, codes) ==
    SelectSeq(codes, LAMBDA code : MatchesErrorCode(payload, code))

\* the for loop over the error codes: the codes it appends an event for.
\* The break ends the loop at the first code found
RECURSIVE ScanErrorCodes(_, _)
ScanErrorCodes(payload, codes) ==
    IF codes = <<>> THEN <<>>
    ELSE IF MatchesErrorCode(payload, Head(codes)) THEN <<Head(codes)>>
    ELSE ScanErrorCodes(payload, Tail(codes))

\* if 'HTTP/' in payload: for error_code in [...]: ...
DetectedErrorCodes(payload) ==
    IF Contains(payload, HttpMarker) THEN ScanErrorCodes(payload, HttpErrorCodes)
    ELSE <<>>

HttpErrorEvent(pkt, pkt_num, payload, code) ==
    LET known == pkt.net = "IPv4" /\ pkt.l4 = "TCP"
    IN  [packet_num |-> pkt_num, timestamp |-> pkt.time,
         src |-> IF known THEN Endpoint(pkt.src, pkt.sport) ELSE "unknown",
         dst |-> IF known THEN Endpoint(pkt.dst, pkt.dport) ELSE "unknown",
         status_code |-> JoinChars(code),
         preview |-> Prefix(payload, PreviewLen)]

RECURSIVE AppendHttpErrors(_, _, _, _, _)
AppendHttpErrors(s, pkt, pkt_num, payload, codes) ==
    IF codes = <<>> THEN s
    ELSE AppendHttpErrors(
             [s EXCEPT !.http_errors =
                           Append(@, HttpErrorEvent(pkt, pkt_num, payload,
                                                    Head(codes))),
                       !.errors_by_type =
                           ListDictAppend(@, "HTTP_" \o JoinChars(Head(codes)),
                                          pkt_num)],
             pkt, pkt_num, payload, Tail(codes))

\* if pkt.haslayer(Raw): ...
HttpSection(s, pkt, pkt_num) ==
    IF ~pkt.raw THEN s
    ELSE LET payload == Decode(pkt.load)
         IN  AppendHttpErrors(s, pkt, pkt_num, payload,
                              DetectedErrorCodes(payload))

LargePacketEvent(pkt, pkt_num) ==
    [packet_num |-> pkt_num, timestamp |-> pkt.time, size |-> pkt.len,
     src |-> IF pkt.net = "IPv4" THEN pkt.src ELSE "unknown",
     dst |-> IF pkt.net = "IPv4" THEN pkt.dst ELSE "unknown"]

\* if len(pkt) > 1400: ...
LargeSection(s, pkt, pkt_num) ==
    IF pkt.len > LargePacketSize
    THEN [s EXCEPT !.large_packets = Append(@, LargePacketEvent(pkt, pkt_num))]
    ELSE s

\* analyze_packet(pkt, pkt_num): self.stats afterwards
AnalyzePacketStats(s, track, pkt, pkt_num) ==
    LargeSection(
        HttpSection(
            DnsSection(ProtocolSection(s, track, pkt, pkt_num), pkt, pkt_num),
            pkt, pkt_num),
        pkt, pkt_num)

-----------------------------------------------------------------------------
(* generate_summary, generate_error_details, generate_conversation_summary *)

RECURSIVE SumLens(_)
SumLens(pkts) ==
    IF pkts = <<>> THEN 0 ELSE Head(pkts).len + SumLens(Tail(pkts))

\* os.path.getsize(self.pcap_file), in bytes: a pcap file is a 24 byte
\* header and, per record, a 16 byte header and the frame
FileSize(file) == 24 + 16 * Len(file) + SumLens(file)

RECURSIVE TotalItems(_)
TotalItems(d) ==
    IF d = <<>> THEN 0 ELSE Len(Head(d).items) + TotalItems(Tail(d))

\* [{'ip': ip, 'packets': count} for ip, count in counter.most_common(n)]
TopIps(c, n) ==
    LET top == MostCommon(c, n)
    IN  [i \in 1..Len(top) |-> [ip |-> top[i].key, packets |-> top[i].count]]

TopPorts(c, n) ==
    LET top == MostCommon(c, n)
    IN  [i \in 1..Len(top) |-> [port |-> top[i].key, packets |-> top[i].count]]

TopDomains(c, n) ==
    LET top == MostCommon(c, n)
    IN  [i \in 1..Len(top) |-> [domain |-> top[i].key, count |-> top[i].count]]

\* the 'error_summary' entry of the summary
ErrorSummary(s) ==
    [total_errors |-> TotalItems(s.errors_by_type),
     error_types |-> [i \in 1..Len(s.errors_by_type) |->
                         [key |-> s.errors_by_type[i].key,
                          count |-> Len(s.errors_by_type[i].items)]],
     tcp_resets |-> Len(s.tcp_resets),
     tcp_retransmissions |-> Len(s.tcp_retransmissions),
     dns_failures |-> Len(s.dns_failures),
     http_errors |-> Len(s.http_errors),
     connection_failures |-> Len(s.connection_failures)]

\* os.path.basename(self.pcap_file): every run reads the same file
SourceFile == "capture.pcap"

\* generate_summary; clock is datetime.now() and file the capture file.  The
\* size in megabytes is the quotient of the pair <<bytes, 1024 * 1024>>
GenerateSummary(s, file, clock) ==
    [metadata |-> [source_file |-> SourceFile,
                   total_packets |-> s.total_packets,
                   analysis_timestamp |-> clock,
                   file_size_mb |-> <<FileSize(file), 1024 * 1024>>],
     protocol_distribution |-> MostCommonAll(s.protocols),
     top_sources |-> TopIps(s.src_ips, TopN),
     top_destinations |-> TopIps(s.dst_ips, TopN),
     top_ports |-> [source |-> TopPorts(s.src_ports, TopN),
                    destination |-> TopPorts(s.dst_ports, TopN)],
     tcp_flags_distribution |-> MostCommon(s.tcp_flags, TopN),
     error_summary |-> ErrorSummary(s),
     top_dns_queries |-> TopDomains(s.dns_queries, TopDnsN)]

\* the last n elements of a list
Latest(s, n) == SubSeq(s, Len(s) - Min(n, Len(s)) + 1, Len(s))

\* a report of the latest events of each type
GenerateErrorDetailsLatest(s) ==
    [tcp_resets |-> Latest(s.tcp_resets, ErrorListLimit),
     tcp_retransmissions |-> Latest(s.tcp_retransmissions, ErrorListLimit),
     dns_failures |-> Latest(s.dns_failures, ErrorListLimit),
     http_errors |-> Latest(s.http_errors, ErrorListLimit),
     connection_failures |-> Latest(s.connection_failures, ConnFailureLimit),
     large_packets |-> Latest(s.large_packets, LargePacketLimit)]

\* generate_error_details
GenerateErrorDetails(s) ==
    [tcp_resets |-> Prefix(s.tcp_resets, ErrorListLimit),
     tcp_retransmissions |-> Prefix(s.tcp_retransmissions, ErrorListLimit),
     dns_failures |-> Prefix(s.dns_failures, ErrorListLimit),
     http_errors |-> Prefix(s.http_errors, ErrorListLimit),
     connection_failures |-> Prefix(s.connection_failures, ConnFailureLimit),
     large_packets |-> Prefix(s.large_packets, LargePacketLimit)]

\* str(flag) of scapy's FlagValue: the letters of the set flags, in bit order
FlagValueStr(flags) ==
    JoinChars(SelectSeq(<<"F", "S", "R", "P", "A">>, LAMBDA f : f \in flags))

\* flags_counter = Counter(); for flag in conv_data['flags']:
\* flags_counter[str(flag)] += 1.  The keys are in the order of their first
\* occurrence
CountFlags(flagList) ==
    LET n == Len(flagList)
        name == [i \in 1..n |-> FlagValueStr(flagList[i])]
        firsts == {i \in 1..n : \A j \in 1..(i - 1) : name[j] # name[i]}
        place == [i \in firsts |-> Cardinality({j \in firsts : j <= i})]
    IN  [p \in 1..Cardinality(firsts) |->
            LET i == CHOOSE i \in firsts : place[i] = p
            IN  [key |-> name[i],
                 count |-> Cardinality({j \in 1..n : name[j] = name[i]})]]

\* bool(conv_data['first_seen']): None and 0 are false
Truthy(opt) == opt # None /\ opt[1] # 0

\* duration = conv_data['last_seen'] - conv_data['first_seen']
\*            if conv_data['first_seen'] else 0
Duration(conv) ==
    IF Truthy(conv.first_seen) THEN conv.last_seen[1] - conv.first_seen[1]
    ELSE 0

ConversationEntry(conv) ==
    LET top == MostCommon(CountFlags(conv.flags), TopFlags)
    IN  [conversation |-> conv.key, packets |-> conv.packets,
         bytes |-> conv.bytes, duration_seconds |-> Duration(conv),
         flags_summary |->
             [i \in 1..Len(top) |-> [flag |-> top[i].key,
                                     count |-> top[i].count]]]

\* the first 20 conversations of the table, as they stand
TopConvsUnsorted(convs) == Prefix(convs, TopConversations)

\* sorted(conversations.items(), key=packets, reverse=True)[:20]
TopConvs(convs) ==
    Prefix(SortedDesc(convs, [i \in 1..Len(convs) |-> convs[i].packets]),
           TopConversations)

\* generate_conversation_summary
GenerateConversationSummary(s) ==
    LET top == TopConvs(s.conversations)
    IN  [i \in 1..Len(top) |-> ConversationEntry(top[i])]

\* what export_analysis writes to summary.json, errors_detailed.json and
\* conversations.json
ExportedReports(s, file, clock) ==
    [summary |-> GenerateSummary(s, file, clock),
     errors_detailed |-> GenerateErrorDetails(s),
     conversations |-> GenerateConversationSummary(s)]

-----------------------------------------------------------------------------
(* The captures the model reads.  A packet is a record of the fields that  *)
(* analyze_packet reads: net is the network layer ("IPv4", "IPv6" or       *)
(* "NONE"), l4 the transport layer, dns and raw say whether the packet has *)
(* a DNS and a Raw layer.                                                  *)

BasePkt ==
    [time |-> 1, len |-> 60, net |-> "NONE", src |-> "", dst |-> "",
     l4 |-> "NONE", sport |-> 0, dport |-> 0, flags |-> {}, seq |-> 0,
     ack |-> 0, icmp_type |-> 0, icmp_code |-> 0, dns |-> FALSE, qr |-> 0,
     rcode |-> 0, has_qd |-> FALSE, qname |-> <<>>, raw |-> FALSE,
     load |-> <<>>]

HostA == "10.0.0.5"
HostB == "93.184.216.34"
HostC == "10.0.0.6"

TcpPkt(src, sport, dst, dport, flags, seq, len, time) ==
    [BasePkt EXCEPT !.net = "IPv4", !.l4 = "TCP", !.src = src, !.dst = dst,
                    !.sport = sport, !.dport = dport, !.flags = flags,
                    !.seq = seq, !.ack = 1, !.len = len, !.time = time]

UdpPkt(src, sport, dst, dport, len) ==
    [BasePkt EXCEPT !.net = "IPv4", !.l4 = "UDP", !.src = src, !.dst = dst,
                    !.sport = sport, !.dport = dport, !.len = len]

IcmpPkt(src, dst, type, code) ==
    [BasePkt EXCEPT !.net = "IPv4", !.l4 = "ICMP", !.src = src, !.dst = dst,
                    !.icmp_type = type, !.icmp_code = code, !.len = 70]

OverIPv6(pkt) ==
    [pkt EXCEPT !.net = "IPv6", !.src = "2001:db8::5", !.dst = "2001:db8::6"]

WithDns(pkt, qr, rcode, has_qd, qname) ==
    [pkt EXCEPT !.dns = TRUE, !.qr = qr, !.rcode = rcode, !.has_qd = has_qd,
                !.qname = qname]

\* load follows the headers, of pkt.len bytes
WithRaw(pkt, load) ==
    [pkt EXCEPT !.raw = TRUE, !.load = load, !.len = @ + Len(load)]

\* segments of one connection, of its reverse direction and of a second
\* connection; frames of 60 and of 61 bytes; a datagram with the same
\* addresses and ports
FamilyRetrans ==
    { TcpPkt(HostA, 1234, HostB, 80, {"A"}, 100, 61, 0),
      TcpPkt(HostA, 1234, HostB, 80, {"A"}, 100, 60, 1),
      TcpPkt(HostA, 1234, HostB, 80, {"P", "A"}, 200, 61, 7),
      TcpPkt(HostB, 80, HostA, 1234, {"A"}, 100, 61, 2),
      TcpPkt(HostC, 1234, HostB, 80, {"A"}, 100, 61, 3),
      TcpPkt(HostA, 80, HostA, 80, {"A"}, 100, 61, 1),
      OverIPv6(TcpPkt(HostA, 1234, HostB, 80, {"A"}, 100, 61, 1)),
      UdpPkt(HostA, 1234, HostB, 80, 61) }

\* the flag combinations, over IPv4 and over IPv6
FamilyFlags ==
    { TcpPkt(HostA, 1234, HostB, 80, {"R"}, 100, 60, 1),
      TcpPkt(HostA, 1234, HostB, 80, {"R", "A"}, 100, 61, 2),
      TcpPkt(HostA, 1234, HostB, 80, {"S"}, 99, 60, 0),
      TcpPkt(HostB, 80, HostA, 1234, {"S", "A"}, 500, 60, 1),
      TcpPkt(HostA, 1234, HostB, 80, {"F", "A"}, 101, 60, 3),
      TcpPkt(HostA, 1234, HostB, 80, {}, 100, 61, 1),
      OverIPv6(TcpPkt(HostA, 1234, HostB, 80, {"R"}, 100, 60, 1)),
      OverIPv6(TcpPkt(HostA, 1234, HostB, 80, {"S"}, 99, 60, 1)) }

NameInternal == <<"internal", "example", "com", "">>
NameExample == <<"example", "org", "">>

\* DNS queries and responses with the response codes of the table and
\* beyond it, with and without a question, over UDP, TCP and IPv6
FamilyDns ==
    { WithDns(UdpPkt(HostA, 5353, HostB, 53, 80), 0, 0, TRUE, NameExample),
      WithDns(UdpPkt(HostA, 5353, HostB, 53, 80), 0, 3, TRUE, NameInternal),
      WithDns(UdpPkt(HostB, 53, HostA, 5353, 90), 1, 0, TRUE, NameExample),
      WithDns(UdpPkt(HostB, 53, HostA, 5353, 90), 1, 3, TRUE, NameInternal),
      WithDns(UdpPkt(HostB, 53, HostA, 5353, 90), 1, 2, TRUE, NameExample),
      WithDns(UdpPkt(HostB, 53, HostA, 5353, 90), 1, 5, FALSE, <<>>),
      WithDns(TcpPkt(HostB, 53, HostA, 5353, {"R", "A"}, 100, 90, 1),
              1, 9, TRUE, NameExample),
      WithDns(UdpPkt(HostB, 53, HostA, 5353, 90), 1, 1, TRUE, NameExample),
      OverIPv6(WithDns(UdpPkt(HostB, 53, HostA, 5353, 90),
                       1, 4, TRUE, NameInternal)) }

Payload503 == 
    <<"H", "T", "T", "P", "/", "1", ".", "1", " ", "5", "0", "3", " ", "S",
      "e", "r", "v", "i", "c", "e", " ", "U", "n", "a", "v", "a", "i", "l",
      "a", "b", "l", "e">>
Payload404 == 
    <<"H", "T", "T", "P", "/", "1", ".", "0", " ", "4", "0", "4", " ", "N",
      "o", "t", " ", "F", "o", "u", "n", "d">>
Payload200 == 
    <<"H", "T", "T", "P", "/", "1", ".", "1", " ", "2", "0", "0", " ", "O",
      "K">>
PayloadGet == 
    <<"G", "E", "T", " ", "/", "5", "0", "4", " ", "H", "T", "T", "P", "/",
      "1", ".", "1">>
PayloadTwo == 
    <<"H", "T", "T", "P", "/", "1", ".", "1", " ", "5", "0", "4", " ", "G",
      "a", "t", "e", "w", "a", "y", " ", "T", "i", "m", "e", "o", "u", "t",
      " ", "H", "T", "T", "P", "/", "1", ".", "1", " ", "4", "0", "0", " ",
      "B", "a", "d", " ", "R", "e", "q", "u", "e", "s", "t">>
PayloadBad == 
    <<"H", "T", "T", "P", "/", "1", ".", "1", " ", BadByte, "5", "0", "2",
      " ", "B", "a", "d", " ", "G", "a", "t", "e", "w", "a", "y">>
\* a status line behind more text than the preview holds
PayloadLong == [i \in 1..(PreviewLen + 5) |-> "x"] \o Payload503

\* payloads with one status line, two, none, one of a code outside the list,
\* one split by an undecodable byte, one behind the first 200 characters
FamilyHttp ==
    { WithRaw(TcpPkt(HostB, 80, HostA, 1234, {"P", "A"}, 100, 54, 1), Payload503),
      WithRaw(TcpPkt(HostB, 80, HostA, 1234, {"P", "A"}, 100, 54, 1), Payload404),
      WithRaw(TcpPkt(HostB, 80, HostA, 1234, {"P", "A"}, 100, 54, 1), Payload200),
      WithRaw(TcpPkt(HostA, 1234, HostB, 80, {"P", "A"}, 100, 54, 1), PayloadGet),
      WithRaw(TcpPkt(HostB, 80, HostA, 1234, {"P", "A"}, 100, 54, 1), PayloadTwo),
      WithRaw(TcpPkt(HostB, 80, HostA, 1234, {"P", "A"}, 100, 54, 1), PayloadBad),
      WithRaw(TcpPkt(HostB, 80, HostA, 1234, {"P", "A"}, 100, 54, 1), PayloadLong),
      WithRaw(UdpPkt(HostB, 80, HostA, 1234, 42), Payload404) }

\* one packet of each kind, with ICMP, an IPv4 packet that carries neither
\* TCP, UDP nor ICMP, a frame that is not IP and an oversized frame
FamilyMixed ==
    { TcpPkt(HostA, 1234, HostB, 80, {"A"}, 100, 61, 0),
      TcpPkt(HostA, 1234, HostB, 80, {"R"}, 100, 60, 1),
      WithDns(UdpPkt(HostB, 53, HostA, 5353, 90), 1, 3, TRUE, NameInternal),
      WithRaw(TcpPkt(HostB, 80, HostA, 1234, {"P", "A"}, 100, 54, 1), Payload503),
      IcmpPkt(HostB, HostA, 3, 1),
      IcmpPkt(HostA, HostB, 8, 0),
      [BasePkt EXCEPT !.net = "IPv4", !.src = HostA, !.dst = HostB, !.len = 70],
      [BasePkt EXCEPT !.len = LargePacketSize + 1],
      TcpPkt(HostA, 1234, HostB, 80, {"A"}, 300, LargePacketSize + 1, 4) }

Families == {FamilyRetrans, FamilyFlags, FamilyDns, FamilyHttp, FamilyMixed}

SeqsUpTo(S, n) == UNION {[1..k -> S] : k \in 0..n}

\* the flag combinations of the segments of the "busy" capture
BusyFlags ==
    <<{"S"}, {"S", "A"}, {"A"}, {"P", "A"}, {"F", "A"}, {"R"}, {"R", "A"}>>

\* the i-th packet of a long capture of one kind
BulkPkt(kind, i) ==
    CASE kind = "flood" ->
           WithRaw(TcpPkt("10.1.0." \o ToString(i), 1000 + i, HostB, 80,
                          {"S", "R"}, 1, 54, i),
                   Payload503)
      [] kind = "jumbo" -> [BasePkt EXCEPT !.len = LargePacketSize + i]
      [] kind = "replay" -> TcpPkt(HostA, 1234, HostB, 80, {"A"}, 100, 61, i)
      [] kind = "dnsfail" ->
           WithDns(UdpPkt(HostB, 53, HostA, 5353, 90), 1, 3, TRUE,
                   <<"host" \o ToString(i), "example", "com", "">>)
      [] kind = "dnsquery" ->
           WithDns(UdpPkt(HostA, 5353, HostB, 53, 80), 0, 0, TRUE,
                   <<"host" \o ToString(i), "example", "com", "">>)
      [] kind = "busy" ->
           TcpPkt(HostA, 2000 + (IF i <= 22 THEN i ELSE 21 + (i % 2)),
                  HostB, 80, BusyFlags[(i % 7) + 1], i, 54, i)

BulkKinds == {"flood", "jumbo", "replay", "dnsfail", "dnsquery", "busy"}

BulkCaptures == {[i \in 1..MaxBulk |-> BulkPkt(kind, i)] : kind \in BulkKinds}

\* the capture files of the model
Captures == UNION {SeqsUpTo(F, MaxPkts) : F \in Families} \cup BulkCaptures

-----------------------------------------------------------------------------
(* PCAPSanitizer: _hash_value, anonymize_ip, anonymize_mac, anonymize_domain *)

\* hashlib.sha256(f"{value}".encode()).hexdigest()[:16], as computed by
\* Python for the identifiers of the model and for their anonymized forms
Sha256Hex16 ==
    "10.1.2.3" :>
         <<"8", "e", "0", "9", "9", "9", "4", "3",
           "f", "7", "3", "7", "0", "d", "7", "e">>
    @@ "172.20.1.1" :>
         <<"3", "6", "9", "2", "a", "a", "1", "e",
           "1", "0", "5", "3", "f", "c", "a", "a">>
    @@ "192.168.1.10" :>
         <<"8", "0", "5", "e", "b", "f", "2", "0",
           "1", "c", "5", "2", "3", "f", "6", "9">>
    @@ "127.0.0.1" :>
         <<"1", "2", "c", "a", "1", "7", "b", "4",
           "9", "a", "f", "2", "2", "8", "9", "4">>
    @@ "8.8.8.8" :>
         <<"8", "3", "8", "c", "4", "c", "2", "5",
           "7", "3", "8", "4", "8", "f", "5", "8">>
    @@ "fd12::1" :>
         <<"a", "a", "0", "7", "6", "6", "e", "5",
           "0", "e", "8", "0", "b", "2", "e", "9">>
    @@ "2001:4860::8888" :>
         <<"3", "d", "7", "a", "0", "8", "2", "2",
           "2", "b", "4", "1", "f", "e", "f", "0">>
    @@ "not-an-ip" :>
         <<"f", "5", "f", "6", "2", "7", "3", "6",
           "e", "2", "4", "b", "d", "2", "2", "5">>
    @@ "10.142.9.153" :>
         <<"3", "9", "2", "d", "a", "5", "a", "5",
           "7", "b", "b", "6", "e", "9", "b", "b">>
    @@ "203.0.113.142" :>
         <<"6", "3", "8", "1", "5", "2", "b", "b",
           "4", "e", "d", "e", "9", "4", "b", "e">>
    @@ "172.22.146.170" :>
         <<"e", "5", "2", "8", "0", "7", "9", "2",
           "4", "8", "b", "0", "e", "9", "1", "8">>
    @@ "203.0.113.54" :>
         <<"9", "d", "6", "2", "9", "b", "8", "1",
           "b", "3", "8", "3", "5", "2", "0", "8">>
    @@ "192.168.128.94" :>
         <<"d", "a", "4", "7", "8", "4", "7", "6",
           "9", "a", "9", "f", "8", "f", "d", "7">>
    @@ "203.0.113.128" :>
         <<"6", "2", "f", "f", "4", "9", "7", "2",
           "d", "1", "9", "d", "d", "e", "3", "5">>
    @@ "10.18.202.23" :>
         <<"5", "6", "3", "e", "a", "4", "0", "e",
           "1", "f", "d", "0", "e", "9", "4", "b">>
    @@ "203.0.113.18" :>
         <<"5", "9", "d", "2", "a", "d", "6", "5",
           "e", "3", "1", "5", "e", "6", "3", "e">>
    @@ "203.0.113.131" :>
         <<"8", "d", "9", "a", "a", "d", "8", "8",
           "0", "b", "a", "f", "9", "3", "6", "f">>
    @@ "fd00::aa0766e5" :>
         <<"c", "7", "4", "9", "9", "6", "2", "e",
           "c", "5", "5", "7", "5", "0", "7", "2">>
    @@ "2001:db8::aa0766e5" :>
         <<"a", "d", "2", "0", "f", "f", "8", "9",
           "6", "1", "f", "4", "4", "4", "8", "f">>
    @@ "2001:db8::3d7a0822" :>
         <<"6", "c", "f", "6", "6", "8", "e", "b",
           "d", "b", "f", "4", "c", "6", "b", "9">>
    @@ "aa:bb:cc:dd:ee:01" :>
         <<"0", "7", "7", "a", "2", "4", "9", "1",
           "9", "e", "6", "4", "d", "c", "d", "b">>
    @@ "aa:bb:cc:dd:ee:02" :>
         <<"e", "3", "8", "6", "1", "7", "0", "3",
           "2", "4", "e", "c", "1", "8", "8", "d">>
    @@ "00:00:00:07:7a:24" :>
         <<"5", "5", "a", "4", "5", "8", "b", "3",
           "3", "c", "3", "a", "f", "2", "8", "8">>
    @@ "00:00:00:e3:86:17" :>
         <<"a", "a", "3", "6", "5", "e", "5", "8",
           "6", "1", "3", "b", "c", "d", "6", "2">>
    @@ "internal.example.com" :>
         <<"0", "d", "f", "0", "a", "7", "9", "1",
           "8", "5", "f", "5", "0", "5", "3", "b">>
    @@ "localhost" :>
         <<"4", "9", "9", "6", "0", "d", "e", "5",
           "8", "8", "0", "e", "8", "c", "6", "8">>
    @@ "example.org" :>
         <<"b", "f", "a", "b", "c", "3", "7", "4",
           "3", "2", "9", "5", "8", "b", "0", "6">>
    @@ "anon-0df0a79185f5.com" :>
         <<"a", "1", "1", "a", "2", "3", "0", "7",
           "d", "c", "6", "6", "b", "9", "6", "d">>
    @@ "anon-49960de5880e.local" :>
         <<"d", "2", "a", "9", "a", "1", "b", "9",
           "b", "b", "e", "8", "3", "3", "3", "5">>
    @@ "anon-bfabc3743295.org" :>
         <<"f", "3", "b", "1", "a", "0", "7", "c",
           "9", "c", "6", "2", "a", "e", "2", "f">>

\* ipaddress.ip_address(ip_str): whether it raises ValueError (kind
\* "invalid") or the kind of address it returns, is_private of that
\* address, and ip_str.split('.') read as numbers
IpAddressTable ==
    "10.1.2.3" :>
         [kind |-> "v4", private |-> TRUE, octets |-> <<10, 1, 2, 3>>]
    @@ "172.20.1.1" :>
         [kind |-> "v4", private |-> TRUE, octets |-> <<172, 20, 1, 1>>]
    @@ "192.168.1.10" :>
         [kind |-> "v4", private |-> TRUE, octets |-> <<192, 168, 1, 10>>]
    @@ "127.0.0.1" :>
         [kind |-> "v4", private |-> TRUE, octets |-> <<127, 0, 0, 1>>]
    @@ "8.8.8.8" :>
         [kind |-> "v4", private |-> FALSE, octets |-> <<8, 8, 8, 8>>]
    @@ "fd12::1" :>
         [kind |-> "v6", private |-> TRUE, octets |-> <<>>]
    @@ "2001:4860::8888" :>
         [kind |-> "v6", private |-> FALSE, octets |-> <<>>]
    @@ "not-an-ip" :>
         [kind |-> "invalid", private |-> FALSE, octets |-> <<>>]
    @@ "10.142.9.153" :>
         [kind |-> "v4", private |-> TRUE, octets |-> <<10, 142, 9, 153>>]
    @@ "203.0.113.142" :>
         [kind |-> "v4", private |-> TRUE, octets |-> <<203, 0, 113, 142>>]
    @@ "172.22.146.170" :>
         [kind |-> "v4", private |-> TRUE, octets |-> <<172, 22, 146, 170>>]
    @@ "203.0.113.54" :>
         [kind |-> "v4", private |-> TRUE, octets |-> <<203, 0, 113, 54>>]
    @@ "192.168.128.94" :>
         [kind |-> "v4", private |-> TRUE, octets |-> <<192, 168, 128, 94>>]
    @@ "203.0.113.128" :>
         [kind |-> "v4", private |-> TRUE, octets |-> <<203, 0, 113, 128>>]
    @@ "10.18.202.23" :>
         [kind |-> "v4", private |-> TRUE, octets |-> <<10, 18, 202, 23>>]
    @@ "203.0.113.18" :>
         [kind |-> "v4", private |-> TRUE, octets |-> <<203, 0, 113, 18>>]
    @@ "203.0.113.131" :>
         [kind |-> "v4", private |-> TRUE, octets |-> <<203, 0, 113, 131>>]
    @@ "fd00::aa0766e5" :>
         [kind |-> "invalid", private |-> FALSE, octets |-> <<>>]
    @@ "2001:db8::aa0766e5" :>
         [kind |-> "invalid", private |-> FALSE, octets |-> <<>>]
    @@ "2001:db8::3d7a0822" :>
         [kind |-> "invalid", private |-> FALSE, octets |-> <<>>]
    @@ "10.57.45.165" :>
         [kind |-> "v4", private |-> TRUE, octets |-> <<10, 57, 45, 165>>]
    @@ "203.0.113.57" :>
         [kind |-> "v4", private |-> TRUE, octets |-> <<203, 0, 113, 57>>]
    @@ "10.99.129.82" :>
         [kind |-> "v4", private |-> TRUE, octets |-> <<10, 99, 129, 82>>]
    @@ "203.0.113.99" :>
         [kind |-> "v4", private |-> TRUE, octets |-> <<203, 0, 113, 99>>]
    @@ "172.21.40.7" :>
         [kind |-> "v4", private |-> TRUE, octets |-> <<172, 21, 40, 7>>]
    @@ "203.0.113.229" :>
         [kind |-> "v4", private |-> TRUE, octets |-> <<203, 0, 113, 229>>]
    @@ "10.157.98.155" :>
         [kind |-> "v4", private |-> TRUE, octets |-> <<10, 157, 98, 155>>]
    @@ "203.0.113.157" :>
         [kind |-> "v4", private |-> TRUE, octets |-> <<203, 0, 113, 157>>]
    @@ "192.168.218.71" :>
         [kind |-> "v4", private |-> TRUE, octets |-> <<192, 168, 218, 71>>]
    @@ "203.0.113.218" :>
         [kind |-> "v4", private |-> TRUE, octets |-> <<203, 0, 113, 218>>]
    @@ "10.98.255.73" :>
         [kind |-> "v4", private |-> TRUE, octets |-> <<10, 98, 255, 73>>]
    @@ "203.0.113.98" :>
         [kind |-> "v4", private |-> TRUE, octets |-> <<203, 0, 113, 98>>]
    @@ "10.86.62.164" :>
         [kind |-> "v4", private |-> TRUE, octets |-> <<10, 86, 62, 164>>]
    @@ "203.0.113.86" :>
         [kind |-> "v4", private |-> TRUE, octets |-> <<203, 0, 113, 86>>]
    @@ "10.89.210.173" :>
         [kind |-> "v4", private |-> TRUE, octets |-> <<10, 89, 210, 173>>]
    @@ "203.0.113.89" :>
         [kind |-> "v4", private |-> TRUE, octets |-> <<203, 0, 113, 89>>]
    @@ "10.141.154.173" :>
         [kind |-> "v4", private |-> TRUE, octets |-> <<10, 141, 154, 173>>]
    @@ "203.0.113.141" :>
         [kind |-> "v4", private |-> TRUE, octets |-> <<203, 0, 113, 141>>]

\* domain.split('.')
DomainLabels ==
    "internal.example.com" :> <<"internal", "example", "com">>
    @@ "localhost" :> <<"localhost">>
    @@ "example.org" :> <<"example", "org">>
    @@ "anon-0df0a79185f5.com" :> <<"anon-0df0a79185f5", "com">>
    @@ "anon-49960de5880e.local" :> <<"anon-49960de5880e", "local">>
    @@ "anon-bfabc3743295.org" :> <<"anon-bfabc3743295", "org">>
    @@ "anon-a11a2307dc66.com" :> <<"anon-a11a2307dc66", "com">>
    @@ "anon-d2a9a1b9bbe8.local" :> <<"anon-d2a9a1b9bbe8", "local">>
    @@ "anon-f3b1a07c9c62.org" :> <<"anon-f3b1a07c9c62", "org">>

HexDigit(c) ==
    CASE c = "0" -> 0 [] c = "1" -> 1 [] c = "2" -> 2 [] c = "3" -> 3
      [] c = "4" -> 4 [] c = "5" -> 5 [] c = "6" -> 6 [] c = "7" -> 7
      [] c = "8" -> 8 [] c = "9" -> 9 [] c = "a" -> 10 [] c = "b" -> 11
      [] c = "c" -> 12 [] c = "d" -> 13 [] c = "e" -> 14 [] c = "f" -> 15

\* int(chars, 16)
RECURSIVE HexInt(_)
HexInt(chars) ==
    IF chars = <<>> THEN 0
    ELSE 16 * HexInt(SubSeq(chars, 1, Len(chars) - 1))
         + HexDigit(chars[Len(chars)])

\* s[a:b]
Slice(s, a, b) == SubSeq(s, a + 1, Min(b, Len(s)))

\* _hash_value(value, prefix): prefix + hash_obj.hexdigest()[:16]
HashValue(value, prefix) == prefix \o Sha256Hex16[value]

\* int(self._hash_value(ip_str, '')[a:b], 16) % 256
HashOctet(ip_str, a, b) == HexInt(Slice(HashValue(ip_str, <<>>), a, b)) % 256

\* f"{a}.{b}.{c}.{d}"
Dotted(a, b, c, d) ==
    ToString(a) \o "." \o ToString(b) \o "." \o ToString(c) \o "."
    \o ToString(d)

\* the 10. branch (the second assignment; the first one is overwritten) and
\* the else branch of the private IPv4 addresses
AnonTen(ip_str) ==
    Dotted(10, HashOctet(ip_str, 0, 2), HashOctet(ip_str, 2, 4),
           HashOctet(ip_str, 4, 6))

\* a second octet taken modulo 32 instead of 16
Anon172Modulo32(ip_str) ==
    Dotted(172, 16 + (HexInt(Slice(HashValue(ip_str, <<>>), 0, 2)) % 32),
           HashOctet(ip_str, 2, 4), HashOctet(ip_str, 4, 6))

\* the 172.16-31 branch
Anon172(ip_str) ==
    Dotted(172, 16 + (HexInt(Slice(HashValue(ip_str, <<>>), 0, 2)) % 16),
           HashOctet(ip_str, 2, 4), HashOctet(ip_str, 4, 6))

\* the 192.168 branch
Anon192(ip_str) ==
    Dotted(192, 168, HashOctet(ip_str, 0, 2), HashOctet(ip_str, 2, 4))

\* the branches on octets = ip_str.split('.')
AnonPrivateV4(ip_str) ==
    LET octets == IpAddressTable[ip_str].octets
    IN  IF octets[1] = 10 THEN AnonTen(ip_str)
        ELSE IF octets[1] = 172 /\ 16 <= octets[2] /\ octets[2] <= 31
        THEN Anon172(ip_str)
        ELSE IF octets[1] = 192 /\ octets[2] = 168 THEN Anon192(ip_str)
        ELSE AnonTen(ip_str)

\* the public branch: 203.0.113.0/24, or the 2001:db8:: prefix
AnonPublic(ip_str) ==
    IF IpAddressTable[ip_str].kind = "v4"
    THEN Dotted(203, 0, 113, HashOctet(ip_str, 0, 2))
    ELSE "2001:db8::" \o JoinChars(Slice(HashValue(ip_str, <<>>), 0, 8))

\* if ip_obj.is_private and self.preserve_internal_ips
KeepsPrivateRange(ip_str, preserve) ==
    IpAddressTable[ip_str].private /\ preserve

\* the body of the try statement of anonymize_ip, for an address that
\* ipaddress.ip_address accepts
NewAnonIp(ip_str, preserve) ==
    IF KeepsPrivateRange(ip_str, preserve)
    THEN IF IpAddressTable[ip_str].kind = "v4" THEN AnonPrivateV4(ip_str)
         ELSE "fd00::" \o JoinChars(Slice(HashValue(ip_str, <<>>), 0, 8))
    ELSE AnonPublic(ip_str)

\* a dict: self.ip_map[k] = v
MapPut(m, k, v) == [x \in DOMAIN m \cup {k} |-> IF x = k THEN v ELSE m[x]]

\* what anonymize_ip(ip_str) returns
AnonymizeIpResult(m, ip_str, preserve) ==
    IF ip_str \in DOMAIN m THEN m[ip_str]
    ELSE IF IpAddressTable[ip_str].kind = "invalid" THEN ip_str
    ELSE NewAnonIp(ip_str, preserve)

\* a map that holds the latest address only
IpMapReplaced(m, ip_str, preserve) ==
    IF ip_str \in DOMAIN m \/ IpAddressTable[ip_str].kind = "invalid" THEN m
    ELSE MapPut(<<>>, ip_str, NewAnonIp(ip_str, preserve))

\* self.ip_map after anonymize_ip(ip_str)
IpMapAfter(m, ip_str, preserve) ==
    IF ip_str \in DOMAIN m \/ IpAddressTable[ip_str].kind = "invalid" THEN m
    ELSE MapPut(m, ip_str, NewAnonIp(ip_str, preserve))

\* f"00:00:00:{hash_part[0:2]}:{hash_part[2:4]}:{hash_part[4:6]}"
NewAnonMac(mac_str) ==
    LET hash_part == Slice(HashValue(mac_str, <<>>), 0, 6)
    IN  "00:00:00:" \o JoinChars(Slice(hash_part, 0, 2)) \o ":"
        \o JoinChars(Slice(hash_part, 2, 4)) \o ":"
        \o JoinChars(Slice(hash_part, 4, 6))

AnonymizeMacResult(m, mac_str) ==
    IF mac_str \in DOMAIN m THEN m[mac_str] ELSE NewAnonMac(mac_str)

MacMapAfter(m, mac_str) ==
    IF mac_str \in DOMAIN m THEN m ELSE MapPut(m, mac_str, NewAnonMac(mac_str))

\* anon-<12 hex characters>.<tld>, or .local for a name without a dot
NewAnonDomain(domain) ==
    LET parts == DomainLabels[domain]
        hashed == JoinChars(Slice(HashValue(domain, <<>>), 0, 12))
    IN  IF Len(parts) >= 2
        THEN "anon-" \o hashed \o "." \o parts[Len(parts)]
        ELSE "anon-" \o hashed \o ".local"

AnonymizeDomainResult(m, domain) ==
    IF domain \in DOMAIN m THEN m[domain] ELSE NewAnonDomain(domain)

DomainMapAfter(m, domain) ==
    IF domain \in DOMAIN m THEN m ELSE MapPut(m, domain, NewAnonDomain(domain))

-----------------------------------------------------------------------------
(* The prepare stage: main() of prepare_for_ai_analysis.py *)

\* self.stats of PCAPSanitizer.__init__
InitSanStats ==
    [total_packets |-> 0, ip_anonymized |-> 0, mac_anonymized |-> 0,
     dns_sanitized |-> 0, http_sanitized |-> 0, tls_sanitized |-> 0,
     sensitive_data_removed |-> 0]

\* PCAPSanitizer.__init__
InitSanitizer ==
    /\ ip_map = <<>>
    /\ mac_map = <<>>
    /\ domain_map = <<>>
    /\ san_stats = InitSanStats
    /\ calls = <<>>
    /\ prev_calls = None
    /\ sanitized_packets = <<>>
    /\ output_file = None
    /\ file_error = FALSE

\* analyze_with_ai.py is not running
NoLlm ==
    /\ focus = "general"
    /\ model = None
    /\ save_output = TRUE
    /\ requests = <<>>
    /\ result = None
    /\ printed = {}

\* the process has started: no output directory yet, nothing interrupted
InitProcess ==
    /\ out_dir = None
    /\ exit_status = None
    /\ cancelled = FALSE
    /\ NoLlm

\* analyzer = PCAPAnalysisPrep(pcap_file), on some capture file
InitPrepare ==
    /\ stage = "prepare"
    /\ capture \in Captures
    /\ now = 0
    /\ run = 1
    /\ pc = "load"
    /\ packets = <<>>
    /\ idx = 0
    /\ stats = InitStats
    /\ tcp_seq_track = InitSeqTrack
    /\ reports = None
    /\ prev_reports = None
    /\ InitProcess
    /\ preserve_internal_ips = TRUE
    /\ input_file = <<>>
    /\ InitSanitizer

\* load_packets: rdpcap reads the whole file; a file without packets raises
\* ValueError and main exits with status 1
LoadPackets ==
    /\ stage = "prepare"
    /\ pc = "load"
    /\ IF Len(capture) = 0
       THEN /\ pc' = "failed"
            /\ exit_status' = Some(1)
            /\ UNCHANGED <<packets, stats>>
       ELSE /\ pc' = "analyze"
            /\ packets' = capture
            /\ stats' = [stats EXCEPT !.total_packets = Len(capture)]
            /\ UNCHANGED exit_status
    /\ UNCHANGED <<stage, capture, now, run, idx, tcp_seq_track, reports,
                   prev_reports, out_dir, cancelled, sanVars, llmVars>>

\* timestamp = float(pkt.time) raises TypeError for a record that has no
\* timestamp; nothing in analyze_packet or analyze_all catches it
Raises(pkt) == pkt.time = NoTimestamp

\* one turn of the loop of analyze_all: self.analyze_packet(pkt, i + 1)
AnalyzePacket ==
    /\ stage = "prepare"
    /\ pc = "analyze"
    /\ idx < Len(packets)
    /\ ~Raises(packets[idx + 1])
    /\ stats' = AnalyzePacketStats(stats, tcp_seq_track, packets[idx + 1],
                                   idx + 1)
    /\ tcp_seq_track' = TrackAfter(tcp_seq_track, packets[idx + 1])
    /\ idx' = idx + 1
    /\ UNCHANGED <<stage, capture, now, run, pc, packets, reports,
                   prev_reports, mainVars, sanVars, llmVars>>

\* the files export_analysis writes, in the order it writes them
ReportFiles ==
    <<"summary.json", "errors_detailed.json", "conversations.json",
      "ai_analysis_prompt.md", "quick_stats.txt", "token_estimate.txt">>

\* the names in the output directory (none when it does not exist)
FilesIn(dir) == IF dir = None THEN {} ELSE dir[1]

\* the output directory after os.makedirs(exist_ok=True) and the first k
\* files of export_analysis
DirAfterWriting(dir, k) ==
    Some(FilesIn(dir) \cup {ReportFiles[i] : i \in 1..k})

\* export_analysis with no regard for how far analyze_all has come
ExportAnalysisEarly ==
    /\ stage = "prepare"
    /\ pc = "analyze"
    /\ idx <= Len(packets)
    /\ reports' = Some(ExportedReports(stats, capture, now))
    /\ out_dir' = DirAfterWriting(out_dir, Len(ReportFiles))
    /\ exit_status' = Some(0)
    /\ pc' = "done"
    /\ UNCHANGED <<stage, capture, now, run, packets, idx, stats,
                   tcp_seq_track, prev_reports, cancelled, sanVars, llmVars>>

\* export_analysis, called once analyze_all has returned; main exits with 0
ExportAnalysis ==
    /\ stage = "prepare"
    /\ pc = "analyze"
    /\ idx = Len(packets)
    /\ reports' = Some(ExportedReports(stats, capture, now))
    /\ out_dir' = DirAfterWriting(out_dir, Len(ReportFiles))
    /\ exit_status' = Some(0)
    /\ pc' = "done"
    /\ UNCHANGED <<stage, capture, now, run, packets, idx, stats,
                   tcp_seq_track, prev_reports, cancelled, sanVars, llmVars>>

\* the program is run a second time on the same file, later: a new
\* PCAPAnalysisPrep; the reports of the first run are kept for comparison
RunAgain ==
    /\ stage = "prepare"
    /\ pc = "done"
    /\ run = 1
    /\ run' = 2
    /\ now' = now + 1
    /\ prev_reports' = reports
    /\ reports' = None
    /\ pc' = "load"
    /\ packets' = <<>>
    /\ idx' = 0
    /\ stats' = InitStats
    /\ tcp_seq_track' = InitSeqTrack
    /\ exit_status' = None
    /\ UNCHANGED <<stage, capture, out_dir, cancelled, sanVars, llmVars>>

PrepareNext == LoadPackets \/ AnalyzePacket \/ ExportAnalysis \/ RunAgain

-----------------------------------------------------------------------------
(* main() of prepare_for_ai_analysis.py when something goes wrong *)

\* a segment, a response with an HTTP error in its payload and a record
\* without a timestamp
FamilyMain ==
    { TcpPkt(HostA, 1234, HostB, 80, {"A"}, 100, 61, 1),
      WithRaw(TcpPkt(HostB, 80, HostA, 1234, {"P", "A"}, 100, 54, 2),
              Payload503),
      TcpPkt(HostA, 1234, HostB, 80, {"A"}, 100, 61, NoTimestamp) }

MainCaptures == SeqsUpTo(FamilyMain, MaxPkts)

\* the output directory before the run: absent, empty, or holding a file
\* of the user
InitMain ==
    /\ stage = "prepare"
    /\ capture \in MainCaptures
    /\ now = 0
    /\ run = 1
    /\ pc = "load"
    /\ packets = <<>>
    /\ idx = 0
    /\ stats = InitStats
    /\ tcp_seq_track = InitSeqTrack
    /\ reports = None
    /\ prev_reports = None
    /\ out_dir \in {None, Some({}), Some({"notes.txt"})}
    /\ exit_status = None
    /\ cancelled = FALSE
    /\ NoLlm
    /\ preserve_internal_ips = TRUE
    /\ input_file = <<>>
    /\ InitSanitizer

\* analyze_packet raises: analyze_all lets the exception through, main
\* prints "Failed to analyze PCAP" and exits with 1
AnalyzeRaises ==
    /\ stage = "prepare"
    /\ pc = "analyze"
    /\ idx < Len(packets)
    /\ Raises(packets[idx + 1])
    /\ pc' = "analyze_failed"
    /\ exit_status' = Some(1)
    /\ UNCHANGED <<stage, capture, now, run, packets, idx, stats,
                   tcp_seq_track, reports, prev_reports, out_dir, cancelled,
                   sanVars, llmVars>>

\* export_analysis raises (disk full, permission denied): os.makedirs
\* fails when k = 0 and the directory was absent, otherwise the directory
\* exists and the write of file k fails after the k - 1 files before it;
\* main prints the error and exits with 1
ExportRaises ==
    /\ stage = "prepare"
    /\ pc = "analyze"
    /\ idx = Len(packets)
    /\ \E k \in 0..Len(ReportFiles) :
          /\ k = 0 => out_dir = None
          /\ out_dir' = IF k = 0 THEN out_dir
                        ELSE DirAfterWriting(out_dir, k - 1)
    /\ pc' = "export_failed"
    /\ exit_status' = Some(1)
    /\ UNCHANGED <<stage, capture, now, run, packets, idx, stats,
                   tcp_seq_track, reports, prev_reports, cancelled, sanVars, llmVars>>

\* Ctrl-C while main loads, analyses or exports: the handler of
\* KeyboardInterrupt removes the output directory, whatever it holds and
\* whether or not export_analysis has written into it, and exits with 130
Interrupt ==
    /\ stage = "prepare"
    /\ pc \in {"load", "analyze"}
    /\ cancelled' = TRUE
    /\ out_dir' = None
    /\ pc' = "cancelled"
    /\ exit_status' = Some(130)
    /\ UNCHANGED <<stage, capture, now, run, packets, idx, stats,
                   tcp_seq_track, reports, prev_reports, sanVars, llmVars>>

\* Ctrl-C while analyze_packet is inside the try block of its HTTP
\* detection: the bare `except: pass` catches the KeyboardInterrupt, the
\* detection ends where it was (before or after the event was recorded)
\* and the packet and the run go on
AnalyzePacketInterrupted ==
    /\ stage = "prepare"
    /\ pc = "analyze"
    /\ idx < Len(packets)
    /\ ~Raises(packets[idx + 1])
    /\ packets[idx + 1].raw
    /\ \E recorded \in BOOLEAN :
          stats' = IF recorded
                   THEN AnalyzePacketStats(stats, tcp_seq_track,
                                           packets[idx + 1], idx + 1)
                   ELSE LargeSection(
                            DnsSection(
                                ProtocolSection(stats, tcp_seq_track,
                                                packets[idx + 1], idx + 1),
                                packets[idx + 1], idx + 1),
                            packets[idx + 1], idx + 1)
    /\ tcp_seq_track' = TrackAfter(tcp_seq_track, packets[idx + 1])
    /\ idx' = idx + 1
    /\ cancelled' = TRUE
    /\ UNCHANGED <<stage, capture, now, run, pc, packets, reports,
                   prev_reports, out_dir, exit_status, sanVars, llmVars>>

MainNext ==
    \/ LoadPackets
    \/ AnalyzePacket
    \/ ExportAnalysis
    \/ AnalyzeRaises
    \/ ExportRaises
    \/ Interrupt
    \/ AnalyzePacketInterrupted

-----------------------------------------------------------------------------
(* The sanitize stage: one PCAPSanitizer and the identifiers it is given *)

IpInputs ==
    {"10.1.2.3", "172.20.1.1", "192.168.1.10", "127.0.0.1", "8.8.8.8",
     "fd12::1", "2001:4860::8888", "not-an-ip"}

MacInputs == {"aa:bb:cc:dd:ee:01", "aa:bb:cc:dd:ee:02"}

DomainInputs == {"internal.example.com", "localhost", "example.org"}

\* sanitizer = PCAPSanitizer(preserve_internal_ips=...)
InitSanitize ==
    /\ stage = "sanitize"
    /\ preserve_internal_ips \in BOOLEAN
    /\ input_file = <<>>
    /\ InitSanitizer
    /\ run = 1
    /\ capture = <<>>
    /\ now = 0
    /\ pc = "load"
    /\ packets = <<>>
    /\ idx = 0
    /\ stats = InitStats
    /\ tcp_seq_track = InitSeqTrack
    /\ reports = None
    /\ prev_reports = None
    /\ InitProcess

\* what the calls of this run returned for the identifiers of the capture
Returned(kind, inputs) ==
    {calls[j].result : j \in {i \in 1..Len(calls) :
                                calls[i].kind = kind /\ calls[i].arg \in inputs}}

\* the identifiers the next call may be given: in the first run any one of
\* the capture, or one the sanitizer returned before (the capture holds
\* identifiers that are already sanitized); in the second run, which reads
\* the same capture, the one the first run was given at this place
NextArgs(kind, inputs) ==
    IF run = 1 THEN inputs \cup Returned(kind, inputs)
    ELSE IF Len(calls) < Len(prev_calls[1])
            /\ prev_calls[1][Len(calls) + 1].kind = kind
    THEN {prev_calls[1][Len(calls) + 1].arg}
    ELSE {}

Logged(kind, arg, res) == [kind |-> kind, arg |-> arg, result |-> res]

\* anonymize_ip(ip_str)
AnonymizeIp ==
    /\ stage = "sanitize"
    /\ Len(calls) < MaxCalls
    /\ \E ip_str \in NextArgs("ip", IpInputs) :
          /\ calls' = Append(calls,
                 Logged("ip", ip_str,
                        AnonymizeIpResult(ip_map, ip_str,
                                          preserve_internal_ips)))
          /\ ip_map' = IpMapAfter(ip_map, ip_str, preserve_internal_ips)
    /\ UNCHANGED <<stage, prepVars, llmVars, preserve_internal_ips, mac_map,
                   domain_map, prev_calls,
                   fileVars>>

\* anonymize_mac(mac_str)
AnonymizeMac ==
    /\ stage = "sanitize"
    /\ Len(calls) < MaxCalls
    /\ \E mac_str \in NextArgs("mac", MacInputs) :
          /\ calls' = Append(calls,
                 Logged("mac", mac_str, AnonymizeMacResult(mac_map, mac_str)))
          /\ mac_map' = MacMapAfter(mac_map, mac_str)
    /\ UNCHANGED <<stage, prepVars, llmVars, preserve_internal_ips, ip_map,
                   domain_map, prev_calls,
                   fileVars>>

\* anonymize_domain(domain)
AnonymizeDomain ==
    /\ stage = "sanitize"
    /\ Len(calls) < MaxCalls
    /\ \E domain \in NextArgs("domain", DomainInputs) :
          /\ calls' = Append(calls,
                 Logged("domain", domain,
                        AnonymizeDomainResult(domain_map, domain)))
          /\ domain_map' = DomainMapAfter(domain_map, domain)
    /\ UNCHANGED <<stage, prepVars, llmVars, preserve_internal_ips, ip_map, mac_map,
                   prev_calls,
                   fileVars>>

\* the sanitizer is run a second time on the same capture, in the same
\* mode: a new PCAPSanitizer; the log of the first run is kept
SanitizeAgain ==
    /\ stage = "sanitize"
    /\ run = 1
    /\ calls # <<>>
    /\ run' = 2
    /\ prev_calls' = Some(calls)
    /\ calls' = <<>>
    /\ ip_map' = <<>>
    /\ mac_map' = <<>>
    /\ domain_map' = <<>>
    /\ UNCHANGED <<stage, capture, now, pc, packets, idx, stats,
                   tcp_seq_track, reports, prev_reports, mainVars,
                   preserve_internal_ips, fileVars, llmVars>>

SanitizeNext ==
    AnonymizeIp \/ AnonymizeMac \/ AnonymizeDomain \/ SanitizeAgain

-----------------------------------------------------------------------------
(* PCAPSanitizer.sanitize_packet and sanitize_file.  A packet of the       *)
(* sanitizer is a record of the fields sanitize_packet reads and writes; a *)
(* checksum is <<value>> while the field is set and None once deleted.     *)
(* The packets of the model have no DNS answers, no Raw and no TLS layer,  *)
(* so sanitize_http and sanitize_tls leave them as they are.               *)

ZeroMac == "00:00:00:00:00:00"

\* the state sanitize_packet works on: the packet and the sanitizer's fields
Sanitizing(pkt, ipm, macm, domm, st) ==
    [pkt |-> pkt, ip_map |-> ipm, mac_map |-> macm, domain_map |-> domm,
     stats |-> st]

\* if ether.src != "00:00:00:00:00:00": ether.src = self.anonymize_mac(...)
EtherSrcStep(z) ==
    IF z.pkt.eth_src = ZeroMac THEN z
    ELSE [z EXCEPT !.pkt.eth_src = AnonymizeMacResult(z.mac_map, z.pkt.eth_src),
                   !.mac_map = MacMapAfter(z.mac_map, z.pkt.eth_src),
                   !.stats.mac_anonymized = @ + 1]

EtherDstStep(z) ==
    IF z.pkt.eth_dst = ZeroMac THEN z
    ELSE [z EXCEPT !.pkt.eth_dst = AnonymizeMacResult(z.mac_map, z.pkt.eth_dst),
                   !.mac_map = MacMapAfter(z.mac_map, z.pkt.eth_dst),
                   !.stats.mac_anonymized = @ + 1]

\* if packet.haslayer(Ether): ...
EtherStep(z) == IF z.pkt.ether THEN EtherDstStep(EtherSrcStep(z)) ELSE z

\* ip.src = self.anonymize_ip(ip.src)
AddrSrcStep(z, preserve) ==
    [z EXCEPT !.pkt.src = AnonymizeIpResult(z.ip_map, z.pkt.src, preserve),
              !.ip_map = IpMapAfter(z.ip_map, z.pkt.src, preserve)]

AddrDstStep(z, preserve) ==
    [z EXCEPT !.pkt.dst = AnonymizeIpResult(z.ip_map, z.pkt.dst, preserve),
              !.ip_map = IpMapAfter(z.ip_map, z.pkt.dst, preserve)]

\* del ip.chksum; if packet.haslayer(TCP): del packet[TCP].chksum
\* elif packet.haslayer(UDP): del packet[UDP].chksum
DeleteChecksums(pkt) ==
    [pkt EXCEPT !.ip_chksum = None,
                !.l4_chksum = IF pkt.l4 \in {"TCP", "UDP"} THEN None ELSE @]

\* if packet.haslayer(IP): ...
IpStep(z, preserve) ==
    IF z.pkt.net # "IPv4" THEN z
    ELSE [AddrDstStep(AddrSrcStep(z, preserve), preserve)
             EXCEPT !.pkt = DeleteChecksums(@),
                    !.stats.ip_anonymized = @ + 2]

\* text that is an IPv6 address
ValidV6(text) ==
    text \in DOMAIN IpAddressTable /\ IpAddressTable[text].kind = "v6"

\* ipv6.src = self.anonymize_ip(ipv6.src): the table is filled by the call,
\* then the field is assigned, which may raise
Ipv6SrcStep(z, preserve, stores) ==
    IF ValidV6(AnonymizeIpResult(z.ip_map, z.pkt.src, preserve)) \/ stores
    THEN [z |-> AddrSrcStep(z, preserve), raised |-> FALSE]
    ELSE [z |-> [z EXCEPT !.ip_map = IpMapAfter(@, z.pkt.src, preserve)],
          raised |-> TRUE]

\* ipv6.dst = self.anonymize_ip(ipv6.dst); self.stats['ip_anonymized'] += 2
Ipv6DstStep(r, preserve, stores) ==
    IF r.raised THEN r
    ELSE IF ValidV6(AnonymizeIpResult(r.z.ip_map, r.z.pkt.dst, preserve))
            \/ stores
    THEN [z |-> [AddrDstStep(r.z, preserve)
                    EXCEPT !.stats.ip_anonymized = @ + 2],
          raised |-> FALSE]
    ELSE [z |-> [r.z EXCEPT !.ip_map = IpMapAfter(@, r.z.pkt.dst, preserve)],
          raised |-> TRUE]

\* if packet.haslayer(IPv6): ...  anonymize_ip runs before the field of the
\* packet is assigned.  The field takes the text of an address; given other
\* text scapy either keeps it or raises, which `stores` decides here.  The
\* result is the state and whether the assignment raised
Ipv6Step(z, preserve, stores) ==
    IF z.pkt.net # "IPv6" THEN [z |-> z, raised |-> FALSE]
    ELSE Ipv6DstStep(Ipv6SrcStep(z, preserve, stores), preserve, stores)

\* sanitize_dns: qname.rstrip('.') is anonymized and written back with one
\* dot
DnsStep(z) ==
    IF z.pkt.dns /\ z.pkt.has_qd
    THEN [z EXCEPT !.pkt.qname = AnonymizeDomainResult(z.domain_map, z.pkt.qname),
                   !.pkt.qname_dots = 1,
                   !.domain_map = DomainMapAfter(z.domain_map, z.pkt.qname),
                   !.stats.dns_sanitized = @ + 1]
    ELSE z

\* steps after the IPv6 branch that run whether or not it raised
AfterIpv6StepRegardless(r) == DnsStep(r.z)

\* the steps after the IPv6 branch, which an exception skips
AfterIpv6Step(r) == IF r.raised THEN r.z ELSE DnsStep(r.z)

\* sanitize_packet: an exception ends the try block and the packet is
\* returned as it stands
SanitizePacketResult(z, preserve, stores) ==
    AfterIpv6Step(
        Ipv6Step(IpStep(EtherStep([z EXCEPT !.stats.total_packets = @ + 1]),
                        preserve),
                 preserve, stores))

\* the frames of the captures given to sanitize_file
BaseFrame ==
    [time |-> 0, ether |-> TRUE, eth_src |-> "aa:bb:cc:dd:ee:01",
     eth_dst |-> "aa:bb:cc:dd:ee:02", net |-> "NONE", src |-> "", dst |-> "",
     ip_chksum |-> None, l4 |-> "NONE", l4_chksum |-> None,
     dns |-> FALSE, has_qd |-> FALSE, qname |-> "", qname_dots |-> 0]

Ipv4Frame(src, dst, l4, time) ==
    [BaseFrame EXCEPT !.net = "IPv4", !.src = src, !.dst = dst, !.l4 = l4,
                      !.ip_chksum = Some(4660), !.time = time,
                      !.l4_chksum = IF l4 = "NONE" THEN None ELSE Some(22136)]

Ipv6Frame(src, dst, l4, time) ==
    [BaseFrame EXCEPT !.net = "IPv6", !.src = src, !.dst = dst, !.l4 = l4,
                      !.time = time,
                      !.l4_chksum = IF l4 = "NONE" THEN None ELSE Some(22136)]

WithQuestion(frame, qname) ==
    [frame EXCEPT !.dns = TRUE, !.has_qd = TRUE, !.qname = qname,
                  !.qname_dots = 1]

\* TCP, UDP with a DNS question and ICMP over IPv4, TCP and DNS over IPv6, a
\* frame from the all-zero MAC address and a frame without a network layer
Frames ==
    { Ipv4Frame("10.1.2.3", "8.8.8.8", "TCP", 1),
      WithQuestion(Ipv4Frame("8.8.8.8", "10.1.2.3", "UDP", 2),
                   "internal.example.com"),
      [Ipv4Frame("192.168.1.10", "172.20.1.1", "ICMP", 3)
          EXCEPT !.eth_src = ZeroMac],
      Ipv6Frame("fd12::1", "2001:4860::8888", "TCP", 4),
      WithQuestion(Ipv6Frame("2001:4860::8888", "fd12::1", "UDP", 5),
                   "example.org"),
      [BaseFrame EXCEPT !.time = 6] }

\* the capture files given to sanitize_file: at least one frame
FileCaptures == UNION {[1..k -> Frames] : k \in 1..MaxPkts}

\* sanitizer = PCAPSanitizer(preserve_internal_ips=...);
\* sanitizer.sanitize_file(input_file, output_file)
InitFile ==
    /\ stage = "file"
    /\ preserve_internal_ips \in BOOLEAN
    /\ input_file \in FileCaptures
    /\ InitSanitizer
    /\ run = 1
    /\ capture = <<>>
    /\ now = 0
    /\ pc = "load"
    /\ packets = <<>>
    /\ idx = 0
    /\ stats = InitStats
    /\ tcp_seq_track = InitSeqTrack
    /\ reports = None
    /\ prev_reports = None
    /\ InitProcess

\* one turn of the loop of sanitize_file:
\* sanitized_packets.append(self.sanitize_packet(packet))
SanitizePacket ==
    /\ stage = "file"
    /\ output_file = None
    /\ ~file_error
    /\ Len(sanitized_packets) < Len(input_file)
    /\ \E stores \in BOOLEAN :
          \E z \in {SanitizePacketResult(
                       Sanitizing(input_file[Len(sanitized_packets) + 1],
                                  ip_map, mac_map, domain_map, san_stats),
                       preserve_internal_ips, stores)} :
              /\ sanitized_packets' = Append(sanitized_packets, z.pkt)
              /\ ip_map' = z.ip_map
              /\ mac_map' = z.mac_map
              /\ domain_map' = z.domain_map
              /\ san_stats' = z.stats
    /\ UNCHANGED <<stage, prepVars, llmVars, preserve_internal_ips, calls, prev_calls,
                   input_file, output_file, file_error>>

\* wrpcap can encode the packet: the addresses of an IPv6 header are addresses
Encodable(pkt) == pkt.net = "IPv6" => ValidV6(pkt.src) /\ ValidV6(pkt.dst)

CanWrite == \A i \in 1..Len(sanitized_packets) : Encodable(sanitized_packets[i])

\* wrpcap without the first record
WritePcapSkippingFirst ==
    /\ stage = "file"
    /\ output_file = None
    /\ ~file_error
    /\ Len(sanitized_packets) = Len(input_file)
    /\ CanWrite
    /\ output_file' = Some(Tail(sanitized_packets))
    /\ UNCHANGED <<stage, prepVars, llmVars, preserve_internal_ips, ip_map, mac_map,
                   domain_map, calls, prev_calls, input_file, san_stats,
                   sanitized_packets, file_error>>

\* wrpcap(output_file, sanitized_packets)
WritePcap ==
    /\ stage = "file"
    /\ output_file = None
    /\ ~file_error
    /\ Len(sanitized_packets) = Len(input_file)
    /\ CanWrite
    /\ output_file' = Some(sanitized_packets)
    /\ UNCHANGED <<stage, prepVars, llmVars, preserve_internal_ips, ip_map, mac_map,
                   domain_map, calls, prev_calls, input_file, san_stats,
                   sanitized_packets, file_error>>

\* wrpcap raises on a packet it cannot encode:
\* except Exception as e: print(f"Error processing file: {e}")
WritePcapRaises ==
    /\ stage = "file"
    /\ output_file = None
    /\ ~file_error
    /\ Len(sanitized_packets) = Len(input_file)
    /\ ~CanWrite
    /\ file_error' = TRUE
    /\ UNCHANGED <<stage, prepVars, llmVars, preserve_internal_ips, ip_map, mac_map,
                   domain_map, calls, prev_calls, input_file, san_stats,
                   sanitized_packets, output_file>>

FileNext == SanitizePacket \/ WritePcap \/ WritePcapRaises

-----------------------------------------------------------------------------
(* Specifications *)

\* the prepare stage
(* The LLM stage: main() of analyze_with_ai.py and PCAPAIAnalyzer.analyze. *)
(* The analysis directory is the output directory of the prepare stage.    *)

FocusChoices == {"general", "errors", "performance", "dns"}

ModelChoices == {"gpt-5", "gpt-5-chat", "gpt-5-mini", "gpt-5-pro"}

\* the files PCAPAIAnalyzer.__init__ requires
RequiredFiles == {"summary.json", "errors_detailed.json"}

\* self.model: the override, or gpt-5-chat (GPT_5_CHAT_MODEL is not set)
SelectedModel(override) ==
    IF override # None THEN override[1] ELSE "gpt-5-chat"

\* the kwargs of chat.completions.create: reasoning models take
\* max_completion_tokens, chat models max_tokens and a temperature
CompletionKwargs(m, f) ==
    IF m \in {"gpt-5-mini", "gpt-5-pro", "gpt-5"}
    THEN [model |-> m, prompt |-> f, max_completion_tokens |-> 3000]
    ELSE [model |-> m, prompt |-> f, max_tokens |-> 3000,
          temperature |-> "0.7"]

\* the two files analyze saves (their names also carry the time)
SavedFiles(f) == {"ai_analysis_" \o f \o ".md", "ai_analysis_" \o f \o ".json"}

\* the ways the chat-completion call fails in the model
ApiErrors == {"authentication", "rate limit", "timeout"}

\* the command line of the run, and the analysis directory it is given:
\* absent, without errors_detailed.json, with the two required files, or
\* as export_analysis leaves it
InitLlm ==
    /\ stage = "llm"
    /\ focus \in FocusChoices
    /\ model \in {None} \cup {Some(m) : m \in ModelChoices}
    /\ save_output \in BOOLEAN
    /\ requests = <<>>
    /\ result = None
    /\ printed = {}
    /\ out_dir \in {None, Some({"summary.json"}), Some(RequiredFiles),
                    DirAfterWriting(None, Len(ReportFiles))}
    /\ exit_status = None
    /\ cancelled = FALSE
    /\ capture = <<>>
    /\ now = 0
    /\ run = 1
    /\ pc = "init"
    /\ packets = <<>>
    /\ idx = 0
    /\ stats = InitStats
    /\ tcp_seq_track = InitSeqTrack
    /\ reports = None
    /\ prev_reports = None
    /\ preserve_internal_ips = TRUE
    /\ input_file = <<>>
    /\ InitSanitizer

\* analyzer = PCAPAIAnalyzer(args.dir, model_override=args.model): a
\* missing directory or required file raises FileNotFoundError and main
\* exits with 1
InitAnalyzer ==
    /\ stage = "llm"
    /\ pc = "init"
    /\ IF RequiredFiles \subseteq FilesIn(out_dir)
       THEN /\ pc' = "call"
            /\ model' = Some(SelectedModel(model))
            /\ UNCHANGED <<exit_status, printed>>
       ELSE /\ pc' = "failed"
            /\ printed' = printed \cup {"Error"}
            /\ exit_status' = Some(1)
            /\ UNCHANGED model
    /\ UNCHANGED <<stage, capture, now, run, packets, idx, stats,
                   tcp_seq_track, reports, prev_reports, out_dir, cancelled,
                   sanVars, focus, save_output, requests, result>>

\* analyze: the call returns a completion; analyze prints it, saves it
\* unless --no-save and returns the result; main prints "Analysis
\* complete!" and exits with 0
ChatCompletionReturns ==
    /\ stage = "llm"
    /\ pc = "call"
    /\ requests' = Append(requests, CompletionKwargs(model[1], focus))
    /\ result' = Some([focus |-> focus, model |-> model[1]])
    /\ out_dir' = IF save_output
                  THEN Some(FilesIn(out_dir) \cup SavedFiles(focus))
                  ELSE out_dir
    /\ printed' = printed \cup {"ANALYSIS RESULTS", "Analysis complete!"}
    /\ exit_status' = Some(0)
    /\ pc' = "done"
    /\ UNCHANGED <<stage, capture, now, run, packets, idx, stats,
                   tcp_seq_track, reports, prev_reports, cancelled, sanVars,
                   focus, model, save_output>>

\* analyze: the call raises; `except Exception` of analyze prints "Error
\* during analysis" with the traceback and returns {}; main, which gets no
\* exception, prints "Analysis complete!" and exits with 0
ChatCompletionRaises ==
    /\ stage = "llm"
    /\ pc = "call"
    /\ \E e \in ApiErrors :
          printed' = printed \cup {"Error during analysis: " \o e,
                                   "Analysis complete!"}
    /\ requests' = Append(requests, CompletionKwargs(model[1], focus))
    /\ result' = Some(<<>>)
    /\ exit_status' = Some(0)
    /\ pc' = "done"
    /\ UNCHANGED <<stage, capture, now, run, packets, idx, stats,
                   tcp_seq_track, reports, prev_reports, out_dir, cancelled,
                   sanVars, focus, model, save_output>>

LlmNext == InitAnalyzer \/ ChatCompletionReturns \/ ChatCompletionRaises

-----------------------------------------------------------------------------

Init == InitPrepare

Next == PrepareNext

Spec == Init /\ [][Next]_vars

\* the sanitize stage
SpecSanitize == InitSanitize /\ [][SanitizeNext]_vars

\* either stage
InitBoth == InitPrepare \/ InitSanitize

NextBoth == PrepareNext \/ SanitizeNext

SpecBoth == InitBoth /\ [][NextBoth]_vars

\* sanitize_file
SpecFile == InitFile /\ [][FileNext]_vars

\* the prepare stage with its failures and a cancelling user
SpecMain == InitMain /\ [][MainNext]_vars

\* the LLM stage
SpecLlm == InitLlm /\ [][LlmNext]_vars

-----------------------------------------------------------------------------
(* Claims *)

\* the packets analyze_all has analysed so far
Analysed == 1..idx

\* the events of a detection list that packet number n produced
EventsOf(list, n) == {e \in 1..Len(list) : list[e].packet_num = n}

MinOf(S) == CHOOSE x \in S : \A y \in S : x <= y

\* two segments of the same directional connection with the same
\* (sequence number, frame length) pair
SamePair(p, q) ==
    /\ TracksTcp(p) /\ TracksTcp(q)
    /\ p.src = q.src /\ p.sport = q.sport
    /\ p.dst = q.dst /\ p.dport = q.dport
    /\ p.seq = q.seq /\ p.len = q.len

\* C1: for a connection key and a (seq, length) pair with length > 60 seen
\* N >= 1 times, exactly N - 1 retransmission events are recorded for the
\* pair: every occurrence but the first is flagged, once, and the first one
\* is not, whatever is interleaved.
C1_RetransmissionCount ==
    \A i \in Analysed :
        LET p == packets[i]
            occ == {j \in Analysed : SamePair(packets[j], p)}
            evs == {e \in 1..Len(stats.tcp_retransmissions) :
                       LET ev == stats.tcp_retransmissions[e]
                       IN  /\ ev.src = Endpoint(p.src, p.sport)
                           /\ ev.dst = Endpoint(p.dst, p.dport)
                           /\ ev.seq = p.seq /\ ev.length = p.len}
        IN  (TracksTcp(p) /\ p.len > HeaderOnlyCutoff) =>
                /\ Cardinality(evs) = Cardinality(occ) - 1
                /\ {stats.tcp_retransmissions[e].packet_num : e \in evs}
                       = occ \ {MinOf(occ)}

\* C1 witness: a pair replayed three times, with two events for it
C1_Witness ==
    \E i \in Analysed :
        /\ packets[i].len > HeaderOnlyCutoff
        /\ Cardinality({j \in Analysed : SamePair(packets[j], packets[i])}) = 3
        /\ Len(stats.tcp_retransmissions) = 2

\* within one run every call with the same identifier got the same value,
\* the one its map holds
CallsConsistent ==
    /\ \A i, j \in 1..Len(calls) :
           (calls[i].kind = calls[j].kind /\ calls[i].arg = calls[j].arg)
               => calls[i].result = calls[j].result
    /\ \A i \in 1..Len(calls) :
           LET m == CASE calls[i].kind = "ip" -> ip_map
                      [] calls[i].kind = "mac" -> mac_map
                      [] calls[i].kind = "domain" -> domain_map
           IN  calls[i].arg \in DOMAIN m => m[calls[i].arg] = calls[i].result

\* a step of one run keeps every entry of a map as it is
KeepsEntries(m, mAfter) ==
    \A x \in DOMAIN m : x \in DOMAIN mAfter /\ mAfter[x] = m[x]

MapsOnlyGrow ==
    (run' = run) =>
        /\ KeepsEntries(ip_map, ip_map')
        /\ KeepsEntries(mac_map, mac_map')
        /\ KeepsEntries(domain_map, domain_map')

\* C2: within one PCAPSanitizer run every anonymize_ip / anonymize_mac /
\* anonymize_domain call with the same identifier returns the same value,
\* and an entry of ip_map, mac_map or domain_map is never changed or removed.
C2_Consistency == [](CallsConsistent) /\ [][MapsOnlyGrow]_vars

\* C2 witness: an address, a MAC or a name is anonymized again after another
\* identifier was, and its entry is in the map
C2_Witness ==
    /\ Len(calls) = 3
    /\ calls[1].kind = calls[3].kind /\ calls[1].arg = calls[3].arg
    /\ calls[2].arg # calls[1].arg
    /\ calls[1].arg \in DOMAIN ip_map \cup DOMAIN mac_map \cup DOMAIN domain_map

\* the range of a private IPv4 address, from its octets
InTen(o) == o[1] = 10
In172(o) == o[1] = 172 /\ o[2] \in 16..31
In192168(o) == o[1] = 192 /\ o[2] = 168

\* the octets of a returned address; none when it is no IPv4 address the
\* table knows
ResultOctets(ip_str) ==
    IF ip_str \in DOMAIN IpAddressTable THEN IpAddressTable[ip_str].octets
    ELSE <<>>

\* the calls of anonymize_ip with a private IPv4 address, preservation on
PrivateV4Calls ==
    {i \in 1..Len(calls) :
        /\ preserve_internal_ips
        /\ calls[i].kind = "ip"
        /\ IpAddressTable[calls[i].arg].kind = "v4"
        /\ IpAddressTable[calls[i].arg].private}

\* C3 as claimed: with preservation on, every private IPv4 address keeps its
\* first octet, and an address in 172.16-31.x.x or 192.168.x.x keeps its
\* first two octets.
C3_Original ==
    \A i \in PrivateV4Calls :
        LET o == IpAddressTable[calls[i].arg].octets
            r == ResultOctets(calls[i].result)
        IN  /\ Len(r) = 4
            /\ r[1] = o[1]
            /\ (In172(o) \/ In192168(o)) => r[2] = o[2]

\* C3 as amended: with preservation on, an address in 10.0.0.0/8,
\* 172.16.0.0/12 or 192.168.0.0/16 keeps its first octet; one in 192.168.x.x
\* keeps its first two octets; the second octet of the result for
\* 172.16-31.x.x lies in 16..31; every other address that is_private holds
\* for is mapped into 10.x.x.x.
C3_Amended ==
    \A i \in PrivateV4Calls :
        LET o == IpAddressTable[calls[i].arg].octets
            r == ResultOctets(calls[i].result)
        IN  /\ Len(r) = 4
            /\ InTen(o) => r[1] = 10
            /\ In172(o) => In172(r)
            /\ In192168(o) => (r[1] = 192 /\ r[2] = 168)
            /\ ~(InTen(o) \/ In172(o) \/ In192168(o)) => r[1] = 10

\* C3 witness: an address of each private range and a loopback address were
\* anonymized with preservation on
C3_Witness ==
    /\ preserve_internal_ips
    /\ \E i \in PrivateV4Calls : In172(IpAddressTable[calls[i].arg].octets)
    /\ \E i \in PrivateV4Calls : In192168(IpAddressTable[calls[i].arg].octets)
    /\ \E i \in PrivateV4Calls : calls[i].arg = "127.0.0.1"

\* the reports export_analysis wrote, once it has
Exported == pc = "done" /\ reports # None

\* C4: for any capture the exported reports are bounded: the detection lists
\* of errors_detailed have at most 50 entries (connection_failures 30,
\* large_packets 20), top_sources and the other top lists of the summary at
\* most 10 (top_dns_queries 20), and the conversations report at most 20.
C4_TruncationBounds ==
    Exported =>
        LET r == reports[1]
        IN  /\ Len(r.errors_detailed.tcp_resets) <= 50
            /\ Len(r.errors_detailed.tcp_retransmissions) <= 50
            /\ Len(r.errors_detailed.dns_failures) <= 50
            /\ Len(r.errors_detailed.http_errors) <= 50
            /\ Len(r.errors_detailed.connection_failures) <= 30
            /\ Len(r.errors_detailed.large_packets) <= 20
            /\ Len(r.summary.top_sources) <= 10
            /\ Len(r.summary.top_destinations) <= 10
            /\ Len(r.summary.top_ports.source) <= 10
            /\ Len(r.summary.top_ports.destination) <= 10
            /\ Len(r.summary.top_dns_queries) <= 20
            /\ Len(r.conversations) <= 20

\* C4 witness: a capture with more resets, sources and conversations than
\* the reports hold was exported, and the reports are full
C4_Witness ==
    /\ Exported
    /\ Len(stats.tcp_resets) > 50
    /\ Len(stats.src_ips) > 10
    /\ Len(stats.conversations) > 20
    /\ Len(reports[1].errors_detailed.tcp_resets) = 50
    /\ Len(reports[1].summary.top_sources) = 10
    /\ Len(reports[1].conversations) = 20

\* a packet the conversation table counts: TCP or UDP over IPv4
InConversation(p) == p.net = "IPv4" /\ p.l4 \in {"TCP", "UDP"}

\* two packets of the same direction of the same endpoints
SameDirection(p, q) ==
    /\ p.src = q.src /\ p.sport = q.sport
    /\ p.dst = q.dst /\ p.dport = q.dport

\* q travels the direction opposite to p's, between different endpoints
ReverseDirection(p, q) ==
    /\ p.src = q.dst /\ p.sport = q.dport
    /\ p.dst = q.src /\ p.dport = q.sport
    /\ ~SameDirection(p, q)

\* the analysed packets of p's direction, in capture order
DirectionHistory(p) ==
    SelectSeq(SubSeq(packets, 1, idx),
              LAMBDA q : InConversation(q) /\ SameDirection(p, q))

\* the places of the conversation entries kept for p's direction
EntriesOf(p) ==
    {c \in 1..Len(stats.conversations) :
        stats.conversations[c].key = ConvKey(p)}

\* C5: conversations are directional: the entry of A:p -> B:q holds the
\* packet count, byte count, timestamps and flag history of the packets of
\* that direction alone, and the packets of B:q -> A:p have an entry of
\* their own.
C5_Directional ==
    \A i \in Analysed :
        LET p == packets[i]
            h == DirectionHistory(p)
            tcp == SelectSeq(h, LAMBDA q : q.l4 = "TCP")
        IN  InConversation(p) =>
                /\ Cardinality(EntriesOf(p)) = 1
                /\ \A c \in EntriesOf(p) :
                       LET conv == stats.conversations[c]
                       IN  /\ conv.packets = Len(h)
                           /\ conv.bytes = SumLens(h)
                           /\ conv.first_seen = Some(h[1].time)
                           /\ conv.last_seen = Some(h[Len(h)].time)
                           /\ conv.flags = [k \in 1..Len(tcp) |-> tcp[k].flags]
                /\ \A j \in Analysed :
                       (InConversation(packets[j])
                        /\ ReverseDirection(p, packets[j]))
                           => EntriesOf(p) \cap EntriesOf(packets[j]) = {}

\* C5 witness: two packets of one direction with a packet of the reverse
\* direction between them
C5_Witness ==
    /\ idx = 3
    /\ InConversation(packets[1]) /\ InConversation(packets[2])
    /\ SameDirection(packets[1], packets[3])
    /\ ReverseDirection(packets[1], packets[2])
    /\ Len(stats.conversations) = 2

\* a second run of the prepare stage has exported the reports of the capture
\* the first run read
ExportedTwice == stage = "prepare" /\ run = 2 /\ Exported /\ prev_reports # None

\* the reports without the time of the analysis
WithoutClock(r) == [r EXCEPT !.summary.metadata.analysis_timestamp = 0]

\* the second sanitizer run returned, call by call, what the first one did
SameAnonymizedOutput ==
    (stage = "sanitize" /\ run = 2) =>
        \A i \in 1..Len(calls) : calls[i] = prev_calls[1][i]

RstPackets == {i \in 1..Len(packets) : packets[i].l4 = "TCP"
                                        /\ "R" \in packets[i].flags}

\* C7: error_summary.tcp_resets is the number of TCP packets of the capture
\* that carry RST and error_summary.tcp_retransmissions the number of
\* retransmission events detected over the whole capture, both counted over
\* the full detection lists and not over the 50 entries of errors_detailed.
C7_Original ==
    Exported =>
        LET es == reports[1].summary.error_summary
        IN  /\ es.tcp_resets = Cardinality(RstPackets)
            /\ es.tcp_retransmissions = Len(stats.tcp_retransmissions)
            /\ es.tcp_resets >= Len(reports[1].errors_detailed.tcp_resets)
            /\ es.tcp_retransmissions
                   >= Len(reports[1].errors_detailed.tcp_retransmissions)

\* C8: every analysed packet with a TCP layer and RST set, over IPv4 or over
\* IPv6, produces exactly one TcpReset event and is counted in
\* error_summary.tcp_resets; a packet without RST produces none.
C8_Original ==
    /\ \A i \in Analysed :
           packets[i].l4 = "TCP" =>
               Cardinality(EventsOf(stats.tcp_resets, i))
                   = IF "R" \in packets[i].flags THEN 1 ELSE 0
    /\ Exported =>
           reports[1].summary.error_summary.tcp_resets
               = Cardinality(RstPackets)

\* the names of the response codes 0..5
RcodeNames ==
    <<"NOERROR", "FORMERR", "SERVFAIL", "NXDOMAIN", "NOTIMP", "REFUSED">>

\* C9: a DNS packet produces a DnsFailure event exactly when it is a
\* response (qr = 1) with a non-zero response code; the rcode_name of the
\* event is the name of the table for the codes 0..5 and UNKNOWN(<code>) for
\* every other code; queries and responses with rcode 0 produce none.
C9_DnsFailure ==
    \A i \in Analysed :
        LET p == packets[i]
            evs == EventsOf(stats.dns_failures, i)
        IN  /\ Cardinality(evs)
                   = IF p.dns /\ p.qr = 1 /\ p.rcode # 0 THEN 1 ELSE 0
            /\ \A e \in evs :
                   LET ev == stats.dns_failures[e]
                   IN  /\ ev.rcode = p.rcode
                       /\ ev.rcode_name =
                              IF p.rcode \in 0..5 THEN RcodeNames[p.rcode + 1]
                              ELSE "UNKNOWN(" \o ToString(p.rcode) \o ")"

\* C9 witness: a query with a non-zero rcode and a response with rcode 0
\* left no event, a response with a code outside the table left one
C9_Witness ==
    /\ idx = 3
    /\ packets[1].dns /\ packets[1].qr = 0 /\ packets[1].rcode # 0
    /\ packets[2].dns /\ packets[2].qr = 1 /\ packets[2].rcode = 0
    /\ packets[3].dns /\ packets[3].qr = 1 /\ packets[3].rcode = 9
    /\ Len(stats.dns_failures) = 1
    /\ stats.dns_failures[1].rcode_name = "UNKNOWN(9)"

\* the error codes whose status line, HTTP/1.0 or HTTP/1.1, a space and the
\* code, stands somewhere in the text
StatusLineCodes(text) ==
    {code \in {"400", "401", "403", "404", "500", "502", "503", "504"} :
        \E k \in 1..(Len(text) - 11) :
            /\ text[k] = "H"
            /\ JoinChars(SubSeq(text, k, k + 8)) \in {"HTTP/1.0 ", "HTTP/1.1 "}
            /\ JoinChars(SubSeq(text, k + 9, k + 11)) = code}

\* C10: a packet whose decoded payload holds an HTTP status line with a code
\* of {400,401,403,404,500,502,503,504} produces exactly one HttpError
\* event, with the code of a status line of the payload and a preview that
\* is the first 200 characters of the payload at most; a packet whose
\* payload holds no such status line produces none.
C10_HttpError ==
    \A i \in Analysed :
        LET p == packets[i]
            text == IF p.raw THEN Decode(p.load) ELSE <<>>
            codes == StatusLineCodes(text)
            evs == EventsOf(stats.http_errors, i)
        IN  /\ Cardinality(evs) = IF codes # {} THEN 1 ELSE 0
            /\ \A e \in evs :
                   LET ev == stats.http_errors[e]
                   IN  /\ ev.status_code \in codes
                       /\ Len(ev.preview) <= 200
                       /\ Len(ev.preview) = 200 \/ Len(ev.preview) = Len(text)
                       /\ ev.preview = SubSeq(text, 1, Len(ev.preview))

\* C10 witness: a payload with two status lines left one event, and a
\* payload longer than the preview left a preview of 200 characters
C10_Witness ==
    /\ idx = 2
    /\ Cardinality(StatusLineCodes(Decode(packets[1].load))) = 2
    /\ Len(Decode(packets[2].load)) > 200
    /\ Len(stats.http_errors) = 2
    /\ Len(stats.http_errors[2].preview) = 200

\* a packet with a TCP layer that has SYN set and ACK clear
SynWithoutAck(p) == p.l4 = "TCP" /\ "S" \in p.flags /\ "A" \notin p.flags

\* C11: every TCP packet with SYN set and ACK clear has exactly one
\* ConnectionFailure event of type SYN_NO_RESPONSE from the moment it is
\* analysed on, unchanged whatever is analysed after it (a SYN-ACK of the
\* same connection included); a packet with ACK set or SYN clear has none.
C11_Original ==
    \A i \in Analysed :
        LET p == packets[i]
            evs == EventsOf(stats.connection_failures, i)
        IN  p.l4 = "TCP" =>
                /\ Cardinality(evs) = IF SynWithoutAck(p) THEN 1 ELSE 0
                /\ \A e \in evs :
                       stats.connection_failures[e] =
                           [packet_num |-> i, timestamp |-> p.time,
                            src |-> Endpoint(p.src, p.sport),
                            dst |-> Endpoint(p.dst, p.dport),
                            type |-> "SYN_NO_RESPONSE"]

\* the analysed packets before packet i with its connection and its
\* (sequence number, frame length) pair
SeenBefore(i) == {j \in 1..(i - 1) : SamePair(packets[j], packets[i])}

\* C12: a TCP packet of at most 60 bytes never produces a retransmission
\* event, even when its (seq, length) pair was seen before on its connection
\* key; the cutoff is strict: a packet of 61 bytes with a pair seen before
\* produces one.
C12_HeaderOnlyCutoff ==
    \A i \in Analysed :
        LET p == packets[i]
            evs == EventsOf(stats.tcp_retransmissions, i)
        IN  /\ (p.l4 = "TCP" /\ p.len <= 60) => evs = {}
            /\ (TracksTcp(p) /\ p.len = 61 /\ SeenBefore(i) # {})
                   => Cardinality(evs) = 1

\* C12 witness: a segment of 60 bytes was replayed twice and left no event
C12_Witness ==
    /\ idx = 3
    /\ TracksTcp(packets[1]) /\ packets[1].len = 60
    /\ SeenBefore(2) = {1} /\ SeenBefore(3) = {1, 2}
    /\ stats.tcp_retransmissions = <<>>

\* the packet numbers of a list of events grow from each event to the next
Increasing(list) ==
    \A j \in 1..(Len(list) - 1) : list[j].packet_num < list[j + 1].packet_num

\* arr holds the first k events of the stream all, or all of them when the
\* stream is shorter, in the order of the stream
FirstOfStream(arr, all, k) ==
    /\ Len(arr) = IF Len(all) < k THEN Len(all) ELSE k
    /\ \A j \in 1..Len(arr) : arr[j] = all[j]
    /\ Increasing(arr)
    /\ \A j \in (Len(arr) + 1)..Len(all) :
           \A e \in 1..Len(arr) : arr[e].packet_num < all[j].packet_num

\* C13: each array of errors_detailed is a prefix of the detection stream of
\* its type: the first 50 resets, retransmissions, DNS failures and HTTP
\* errors, the first 30 connection failures and the first 20 oversized
\* frames, in the order of detection, so packet_num grows within each array
\* and no event is included while an earlier one of its type is left out.
C13_DetectionPrefix ==
    /\ Increasing(stats.tcp_resets) /\ Increasing(stats.tcp_retransmissions)
    /\ Increasing(stats.dns_failures) /\ Increasing(stats.http_errors)
    /\ Increasing(stats.connection_failures) /\ Increasing(stats.large_packets)
    /\ Exported =>
           LET d == reports[1].errors_detailed
           IN  /\ FirstOfStream(d.tcp_resets, stats.tcp_resets, 50)
               /\ FirstOfStream(d.tcp_retransmissions,
                                stats.tcp_retransmissions, 50)
               /\ FirstOfStream(d.dns_failures, stats.dns_failures, 50)
               /\ FirstOfStream(d.http_errors, stats.http_errors, 50)
               /\ FirstOfStream(d.connection_failures,
                                stats.connection_failures, 30)
               /\ FirstOfStream(d.large_packets, stats.large_packets, 20)

\* C13 witness: 52 resets and connection failures were detected and the
\* arrays end with the 50th and the 30th
C13_Witness ==
    /\ Exported
    /\ Len(stats.tcp_resets) = 52 /\ Len(stats.connection_failures) = 52
    /\ reports[1].errors_detailed.tcp_resets[50].packet_num = 50
    /\ reports[1].errors_detailed.connection_failures[30].packet_num = 30

\* the place in the conversation table of the conversation an exported
\* entry names
TableEntry(entry) ==
    CHOOSE c \in 1..Len(stats.conversations) :
        stats.conversations[c].key = entry.conversation

\* how many segments of a conversation carried the flag combination f
FlagCount(conv, f) ==
    Cardinality({k \in 1..Len(conv.flags) : FlagValueStr(conv.flags[k]) = f})

FlagCombinations(conv) ==
    {FlagValueStr(conv.flags[k]) : k \in 1..Len(conv.flags)}

\* fs counts at most 5 flag combinations of conv, the most frequent ones
TopFlagsOf(fs, conv) ==
    LET shown == {fs[k].flag : k \in 1..Len(fs)}
        all == FlagCombinations(conv)
    IN  /\ Len(fs) <= 5
        /\ Len(fs) = IF Cardinality(all) < 5 THEN Cardinality(all) ELSE 5
        /\ Cardinality(shown) = Len(fs)
        /\ shown \subseteq all
        /\ \A k \in 1..Len(fs) : fs[k].count = FlagCount(conv, fs[k].flag)
        /\ \A f \in all \ shown :
               \A k \in 1..Len(fs) : FlagCount(conv, f) <= fs[k].count

\* C14: generate_conversation_summary returns the top min(20, number of
\* conversations) conversations by packet count, in non-increasing order of
\* packet count; every conversation left out has at most the packet count
\* of every one included; each flags_summary holds at most 5 flag
\* combinations, the most frequent ones of the conversation.
C14_TopConversations ==
    Exported =>
        LET out == reports[1].conversations
            convs == stats.conversations
            n == Len(convs)
            shown == {out[j].conversation : j \in 1..Len(out)}
        IN  /\ Len(out) = IF n < 20 THEN n ELSE 20
            /\ Cardinality(shown) = Len(out)
            /\ \A j \in 1..Len(out) :
                   /\ \E c \in 1..n : convs[c].key = out[j].conversation
                   /\ out[j].packets = convs[TableEntry(out[j])].packets
                   /\ TopFlagsOf(out[j].flags_summary,
                                 convs[TableEntry(out[j])])
            /\ \A j \in 1..(Len(out) - 1) : out[j].packets >= out[j + 1].packets
            /\ \A c \in 1..n :
                   convs[c].key \notin shown =>
                       \A j \in 1..Len(out) : convs[c].packets <= out[j].packets

\* C14 witness: of 22 conversations the two created last have the most
\* packets and lead the report, two conversations are left out, and a
\* conversation with 7 flag combinations shows 5
C14_Witness ==
    /\ Exported
    /\ Len(stats.conversations) = 22
    /\ Len(reports[1].conversations) = 20
    /\ reports[1].conversations[1].conversation = stats.conversations[21].key
    /\ reports[1].conversations[1].packets > reports[1].conversations[3].packets
    /\ Cardinality(FlagCombinations(stats.conversations[21])) = 7
    /\ Len(reports[1].conversations[1].flags_summary) = 5

\* the packets of the capture counted under the conversation key k, in
\* capture order
PacketsOfKey(k) ==
    SelectSeq(packets, LAMBDA q : InConversation(q) /\ ConvKey(q) = k)

\* C15: for every exported conversation duration_seconds is last_seen -
\* first_seen, the timestamps of the last and the first packet of its key,
\* and zero when it has one packet only; this holds for every timestamp, a
\* first packet with timestamp 0 included.
C15_Original ==
    Exported =>
        \A j \in 1..Len(reports[1].conversations) :
            LET entry == reports[1].conversations[j]
                h == PacketsOfKey(entry.conversation)
            IN  /\ h # <<>>
                /\ entry.duration_seconds = h[Len(h)].time - h[1].time

\* the sum of the counts of a counter
RECURSIVE SumCounts(_)
SumCounts(c) == IF c = <<>> THEN 0 ELSE Head(c).count + SumCounts(Tail(c))

\* the sum of the packet counts of the conversation table
RECURSIVE SumPackets(_)
SumPackets(convs) ==
    IF convs = <<>> THEN 0 ELSE Head(convs).packets + SumPackets(Tail(convs))

\* C16: every analysed packet increments a protocol counter, the source and
\* the destination IP counter, the port counters and (for TCP) the flag
\* combination counter, and updates the conversation of its key, the
\* 4-tuple for TCP/UDP and the address pair for ICMP and other packets: no
\* analysed packet leaves the conversation table and the IP counters
\* untouched.  A frame without a network layer has no address to count and
\* is left aside.
C16_Original ==
    LET ip == {i \in Analysed : packets[i].net # "NONE"}
        transport == {i \in ip : packets[i].l4 \in {"TCP", "UDP"}}
        tcp == {i \in ip : packets[i].l4 = "TCP"}
    IN  /\ SumCounts(stats.protocols) >= Cardinality(ip)
        /\ SumCounts(stats.src_ips) = Cardinality(ip)
        /\ SumCounts(stats.dst_ips) = Cardinality(ip)
        /\ SumCounts(stats.src_ports) = Cardinality(transport)
        /\ SumCounts(stats.dst_ports) = Cardinality(transport)
        /\ SumCounts(stats.tcp_flags) = Cardinality(tcp)
        /\ SumPackets(stats.conversations) = Cardinality(ip)

\* what sanitize_packet can return for a packet, by a sanitizer with empty
\* tables: the rewritten packet, or the packet as the raised error left it
SanitizedForms(pkt) ==
    { SanitizePacketResult(Sanitizing(pkt, <<>>, <<>>, <<>>, InitSanStats),
                           preserve_internal_ips, stores).pkt :
        stores \in BOOLEAN }

Written == stage = "file" /\ output_file # None

\* the sanitizing of the packet raised: its IPv6 addresses are the input's
LeftByError(i) ==
    /\ input_file[i].net = "IPv6"
    /\ output_file[1][i].src = input_file[i].src

\* C17: the file sanitize_file writes has as many records as the input, in the
\* input's order, and its i-th record is the sanitized form of the i-th input
\* packet, also when sanitizing a packet raised an error.
C17_RecordsPreserved ==
    Written =>
        /\ Len(output_file[1]) = Len(input_file)
        /\ san_stats.total_packets = Len(input_file)
        /\ \A i \in 1..Len(input_file) :
              /\ output_file[1][i] \in SanitizedForms(input_file[i])
              /\ output_file[1][i].time = input_file[i].time

C17_Witness ==
    /\ Written
    /\ Len(input_file) = 3
    /\ LeftByError(2)
    /\ input_file[1].net = "IPv4" /\ output_file[1][1].src # input_file[1].src
    /\ input_file[3].dns /\ output_file[1][3].qname # input_file[3].qname
    /\ input_file[1].time # input_file[3].time

\* sanitize_packet returned the i-th packet with another network address
Rewritten(i) ==
    \/ sanitized_packets[i].src # input_file[i].src
    \/ sanitized_packets[i].dst # input_file[i].dst

AddressCalls(kind) ==
    {i \in 1..Len(calls) :
        calls[i].kind = "ip" /\ IpAddressTable[calls[i].arg].kind = kind}

\* an address in 203.0.113.0/24
InTestNet3(text) ==
    LET r == ResultOctets(text)
    IN  Len(r) = 4 /\ r[1] = 203 /\ r[2] = 0 /\ r[3] = 113 /\ r[4] \in 0..255

\* an address in 10/8, 172.16/12 or 192.168/16
InPrivateV4(text) ==
    LET r == ResultOctets(text)
    IN  Len(r) = 4 /\ (InTen(r) \/ In172(r) \/ In192168(r))

\* an IPv6 address written under 2001:db8:
UnderDocPrefix(text) ==
    /\ ValidV6(text)
    /\ Len(text) > 9
    /\ SubSeq(text, 1, 9) = "2001:db8:"

\* C19: with preservation off every IPv4 address is mapped into 203.0.113.0/24
\* and every IPv6 address to an address under 2001:db8::; with preservation
\* on every public IPv4 address is still mapped into 203.0.113.0/24 and no
\* public address into 10/8, 172.16/12 or 192.168/16.
C19_Original ==
    stage = "sanitize" =>
        /\ \A i \in AddressCalls("v4") :
              \/ preserve_internal_ips /\ IpAddressTable[calls[i].arg].private
              \/ InTestNet3(calls[i].result)
        /\ \A i \in AddressCalls("v6") :
              /\ ~preserve_internal_ips => UnderDocPrefix(calls[i].result)
              /\ ~IpAddressTable[calls[i].arg].private
                    => ~InPrivateV4(calls[i].result)

\* the calls that were given what an earlier call of the same function
\* returned for another identifier
Reapplied ==
    {i \in 1..Len(calls) :
        \E j \in 1..(i - 1) : /\ calls[j].kind = calls[i].kind
                               /\ calls[j].result = calls[i].arg
                               /\ calls[j].arg # calls[i].arg}

\* C20: anonymize_ip, anonymize_mac and anonymize_domain are idempotent:
\* applied to its own result, each returns that result unchanged.
C20_Original ==
    stage = "sanitize" =>
        \A i \in Reapplied : calls[i].result = calls[i].arg

\* the analysed TCP segments of a connection key that are longer than the
\* header-only cutoff
LongSegments(p) ==
    {i \in Analysed : /\ TracksTcp(packets[i])
                      /\ ConnKey(packets[i]) = ConnKey(p)
                      /\ packets[i].len > HeaderOnlyCutoff}

\* the retransmission events recorded for the connection key of p
RetransmissionsOn(p) ==
    {e \in 1..Len(stats.tcp_retransmissions) :
        /\ stats.tcp_retransmissions[e].src = Endpoint(p.src, p.sport)
        /\ stats.tcp_retransmissions[e].dst = Endpoint(p.dst, p.dport)}

\* C25: for every connection key the number of retransmission events is the
\* sum over the distinct (seq, length) pairs with length > 60 of the
\* occurrences but one, whatever the order of the capture: the number of
\* long segments of the key minus the number of distinct pairs among them.
C25_OrderIndependentCount ==
    \A i \in Analysed :
        TracksTcp(packets[i]) =>
            LET on == LongSegments(packets[i])
                pairs == {<<packets[j].seq, packets[j].len>> : j \in on}
            IN  Cardinality(RetransmissionsOn(packets[i]))
                    = Cardinality(on) - Cardinality(pairs)

\* C25 witness: a pair, another pair of the same key, then the first pair
\* again, which is the one event of the key
C25_Witness ==
    /\ idx = 3
    /\ TracksTcp(packets[1])
    /\ LongSegments(packets[1]) = {1, 2, 3}
    /\ packets[1].seq # packets[2].seq
    /\ packets[3] = packets[1]
    /\ Len(stats.tcp_retransmissions) = 1
    /\ stats.tcp_retransmissions[1].packet_num = 3

\* the analysed ICMP destination-unreachable messages
UnreachablePackets ==
    {i \in Analysed : /\ packets[i].net = "IPv4" /\ packets[i].l4 = "ICMP"
                      /\ packets[i].icmp_type = 3}

\* C26: error_summary.total_errors is the sum of the counts of
\* error_summary.error_types, which is tcp_resets + tcp_retransmissions +
\* dns_failures + http_errors + the ICMP destination-unreachable events;
\* connection failures and oversized frames are not part of it.
C26_TotalErrors ==
    Exported =>
        LET es == reports[1].summary.error_summary
        IN  /\ es.total_errors = SumCounts(es.error_types)
            /\ es.total_errors
                   = es.tcp_resets + es.tcp_retransmissions + es.dns_failures
                     + es.http_errors + Cardinality(UnreachablePackets)

\* C26 witness: errors, and fewer of them in total than connection failures
C26_Witness ==
    /\ Exported
    /\ reports[1].summary.error_summary.total_errors > 0
    /\ reports[1].summary.error_summary.total_errors
          < reports[1].summary.error_summary.connection_failures

Protocols(name) == CounterGet(stats.protocols, name)

\* C27: after any prefix of the pass, TCP + UDP + ICMP <= IPv4, IPv4 + IPv6
\* <= packets analysed, the source and the destination address counts both
\* sum to protocols[IPv4], the flag counts sum to protocols[TCP], and the
\* packet counts of the conversations sum to protocols[TCP] + protocols[UDP].
C27_CountersConsistent ==
    stage = "prepare" =>
        /\ Protocols("TCP") + Protocols("UDP") + Protocols("ICMP")
              <= Protocols("IPv4")
        /\ Protocols("IPv4") + Protocols("IPv6") <= idx
        /\ SumCounts(stats.src_ips) = Protocols("IPv4")
        /\ SumCounts(stats.dst_ips) = Protocols("IPv4")
        /\ SumCounts(stats.tcp_flags) = Protocols("TCP")
        /\ SumPackets(stats.conversations)
              = Protocols("TCP") + Protocols("UDP")

\* C27 witness: a prefix of two packets of a longer capture, an IPv4 packet
\* that carries neither TCP, UDP nor ICMP and a frame that is not IP
C27_Witness ==
    /\ stage = "prepare"
    /\ idx = 2
    /\ Len(packets) = 3
    /\ Protocols("TCP") + Protocols("UDP") + Protocols("ICMP")
          < Protocols("IPv4")
    /\ Protocols("IPv4") + Protocols("IPv6") < idx

\* the analysed packets of p's direction that the conversation table counts
\* and that have the given transport protocol
OfDirection(p, l4) ==
    {j \in Analysed : /\ InConversation(packets[j])
                      /\ SameDirection(p, packets[j])
                      /\ packets[j].l4 = l4}

\* the retransmission tracker holds the keys and the (seq, length) pairs of
\* the analysed TCP segments and nothing else
TrackerFedByTcpOnly ==
    /\ {tcp_seq_track[t].key : t \in 1..Len(tcp_seq_track)}
          = {ConnKey(packets[j]) : j \in {a \in Analysed : TracksTcp(packets[a])}}
    /\ \A t \in 1..Len(tcp_seq_track) :
          tcp_seq_track[t].seen
              = {SeqKey(packets[j]) :
                    j \in {a \in Analysed :
                               /\ TracksTcp(packets[a])
                               /\ ConnKey(packets[a]) = tcp_seq_track[t].key}}

\* C28: the conversation table is keyed by the directional 4-tuple without
\* the transport protocol: a TCP packet and a UDP packet with the same
\* endpoints update one entry, whose packet and byte totals count both,
\* while the retransmission tracker is fed by TCP packets only.
C28_KeyWithoutProtocol ==
    stage = "prepare" =>
        /\ \A i \in Analysed :
              InConversation(packets[i]) =>
                  /\ Cardinality(EntriesOf(packets[i])) = 1
                  /\ \A c \in EntriesOf(packets[i]) :
                        /\ stats.conversations[c].packets
                              = Cardinality(OfDirection(packets[i], "TCP"))
                                + Cardinality(OfDirection(packets[i], "UDP"))
                        /\ stats.conversations[c].bytes
                              = SumLens(DirectionHistory(packets[i]))
        /\ TrackerFedByTcpOnly

\* C28 witness: a TCP segment and a UDP datagram of the same endpoints in
\* one entry, and one tracked pair
C28_Witness ==
    /\ stage = "prepare"
    /\ idx = 2
    /\ packets[1].l4 = "TCP" /\ packets[2].l4 = "UDP"
    /\ InConversation(packets[1]) /\ InConversation(packets[2])
    /\ SameDirection(packets[1], packets[2])
    /\ Len(stats.conversations) = 1
    /\ stats.conversations[1].packets = 2
    /\ stats.conversations[1].bytes = packets[1].len + packets[2].len
    /\ Len(tcp_seq_track) = 1
    /\ Cardinality(tcp_seq_track[1].seen) = 1

\* the places of the packets sanitize_packet has returned
Sanitized == 1..Len(sanitized_packets)

\* sanitize_packet raised on the i-th packet: the first assignment to an
\* IPv6 address did, which left the address as it was
RaisedOn(i) ==
    /\ input_file[i].net = "IPv6"
    /\ sanitized_packets[i].src = input_file[i].src

\* the MAC addresses of the i-th packet were rewritten, but for the all-zero
\* address
MacsRewritten(i) ==
    LET in == input_file[i]
        out == sanitized_packets[i]
    IN  /\ in.eth_src # ZeroMac => out.eth_src = AnonymizeMacResult(<<>>, in.eth_src)
        /\ in.eth_dst # ZeroMac => out.eth_dst = AnonymizeMacResult(<<>>, in.eth_dst)
        /\ in.eth_src = ZeroMac => out.eth_src = ZeroMac

\* C29: when sanitize_packet raises part-way through a packet, the packet is
\* appended as it stands: the rewrites made before the failure are kept, the
\* later steps are skipped for that packet, total_packets counts it, and the
\* pass goes on.
C29_PartialPacketKept ==
    stage = "file" =>
        /\ san_stats.total_packets = Len(sanitized_packets)
        /\ \A i \in Sanitized :
              RaisedOn(i) =>
                  /\ MacsRewritten(i)
                  /\ sanitized_packets[i].dst = input_file[i].dst
                  /\ sanitized_packets[i].qname = input_file[i].qname
                  /\ sanitized_packets[i].l4_chksum = input_file[i].l4_chksum
        /\ san_stats.dns_sanitized
              = Cardinality({i \in Sanitized :
                    input_file[i].dns /\ input_file[i].has_qd /\ ~RaisedOn(i)})
        /\ san_stats.ip_anonymized
              = 2 * Cardinality({i \in Sanitized :
                        input_file[i].net # "NONE" /\ ~RaisedOn(i)})

\* C29 witness: a DNS query over IPv6 left with new MAC addresses, its own
\* IPv6 addresses and its own name, and a packet sanitized after it
C29_Witness ==
    /\ stage = "file"
    /\ Len(sanitized_packets) = 2
    /\ RaisedOn(1)
    /\ input_file[1].dns
    /\ sanitized_packets[1].eth_src # input_file[1].eth_src
    /\ sanitized_packets[1].qname = input_file[1].qname
    /\ san_stats.total_packets = 2
    /\ ~RaisedOn(2)
    /\ sanitized_packets[2].src # input_file[2].src

-----------------------------------------------------------------------------
(* Failures and cancellation of the prepare stage *)

\* the report files found in the output directory
ReportsOnDisk == FilesIn(out_dir) \cap {ReportFiles[i] : i \in 1..Len(ReportFiles)}

\* the run has ended by itself, not by a cancellation
EndedUncancelled == stage = "prepare" /\ exit_status # None /\ ~cancelled

C22_ExportAfterFullPass ==
    stage = "prepare" =>
        /\ (reports # None \/ ReportsOnDisk # {}) =>
               /\ capture # <<>>
               /\ packets = capture
               /\ idx = Len(packets)
               /\ stats.total_packets = Len(capture)
        /\ pc \in {"failed", "analyze_failed"} =>
               /\ exit_status = Some(1)
               /\ reports = None
               /\ ReportsOnDisk = {}

\* a run over a capture of MaxPkts packets has exported its six files into
\* a directory that held a file of the user
C22_Witness ==
    /\ stage = "prepare"
    /\ pc = "done"
    /\ Len(capture) = MaxPkts
    /\ exit_status = Some(0)
    /\ Cardinality(ReportsOnDisk) = Len(ReportFiles)
    /\ "notes.txt" \in FilesIn(out_dir)

\* C23: no run ends with a failure exit leaving an output directory that
\* holds only a subset of the report files (the program writes no marker
\* of incompleteness, so such a directory is unmarked)
C23_Original ==
    (stage = "prepare" /\ exit_status = Some(1)) =>
        \/ ReportsOnDisk = {}
        \/ Cardinality(ReportsOnDisk) = Len(ReportFiles)

\* C30: once the user has pressed Ctrl-C the process has exited with status
\* 130 and the output directory does not exist
C30_Original ==
    (stage = "prepare" /\ cancelled) =>
        /\ exit_status = Some(130)
        /\ out_dir = None

\* the chat-completion call of this run has failed
CallFailed ==
    stage = "llm" /\ \E e \in ApiErrors : ("Error during analysis: " \o e) \in printed

\* C24: when the chat-completion call fails the request is not retried,
\* the run ends with a non-zero exit status and never reports the analysis
\* as complete
C24_Original ==
    CallFailed =>
        /\ Len(requests) = 1
        /\ exit_status \notin {None, Some(0)}
        /\ "Analysis complete!" \notin printed

====
